---- MODULE Spec2Model ----
(***************************************************************************)
(* Verification model of iris-vector-graph: the relational triple store    *)
(* (nodes, rdf_labels, rdf_props, rdf_edges, kg_NodeEmbeddings), the write *)
(* programs run against it, the executors that wrap them in transactions,  *)
(* and the TranslationContext that assembles parameterized SQL.            *)
(***************************************************************************)
EXTENDS Integers, Sequences, FiniteSets, TLC

(***************************************************************************)
(* Bounds                                                                  *)
(***************************************************************************)
NumIds == 2
MaxTxns == 2
MaxPage == 2
MaxFrags == 3
MaxTopN == 2
MaxQueries == 2
MaxFns == 2
MaxNodeIds == 3
MaxStatements == 2
MaxClauses == 2

(***************************************************************************)
(* Small helpers                                                           *)
(***************************************************************************)
Digit(d) == <<"0", "1", "2", "3", "4", "5", "6", "7", "8", "9">>[d + 1]

RECURSIVE ToStr(_)
ToStr(n) == IF n < 10 THEN Digit(n) ELSE ToStr(n \div 10) \o Digit(n % 10)

IdOf(i) == "P:" \o ToStr(i)

Ids == { IdOf(i) : i \in 1..NumIds }

Vals == {"TP53", "BRCA1"}

RECURSIVE Flatten(_)
Flatten(ss) == IF ss = <<>> THEN <<>> ELSE Head(ss) \o Flatten(Tail(ss))

RECURSIVE JoinSeq(_, _)
JoinSeq(ss, sep) ==
  IF ss = <<>> THEN <<>>
  ELSE IF Len(ss) = 1 THEN Head(ss)
  ELSE Head(ss) \o <<sep>> \o JoinSeq(Tail(ss), sep)

Range(s) == { s[i] : i \in DOMAIN s }

(***************************************************************************)
(* Relational schema and its constraints                                   *)
(***************************************************************************)
EmptyDB ==
  [ nodes |-> {}, rdf_labels |-> {}, rdf_props |-> {}, rdf_edges |-> {},
    kg_NodeEmbeddings |-> {} ]

\* Foreign keys declared by the base schema: rdf_labels.s, rdf_edges.s,
\* rdf_edges.o_id and kg_NodeEmbeddings.id reference nodes.node_id.
\* rdf_props declares no foreign key.
RefInt(d) ==
  /\ \A r \in d.rdf_labels : r[1] \in d.nodes
  /\ \A r \in d.rdf_edges : r[1] \in d.nodes /\ r[3] \in d.nodes
  /\ \A r \in d.kg_NodeEmbeddings : r \in d.nodes

\* Primary keys: rdf_props (s, key).  nodes, rdf_labels, rdf_edges (u_spo)
\* and kg_NodeEmbeddings are keyed by the whole modelled row.
KeysOk(d) ==
  \A r1, r2 \in d.rdf_props : (r1[1] = r2[1] /\ r1[2] = r2[2]) => r1 = r2

(***************************************************************************)
(* SQL statement texts                                                     *)
(***************************************************************************)
SQL_START == "START TRANSACTION"
SQL_COMMIT == "COMMIT"
SQL_ROLLBACK == "ROLLBACK"

SQL_COUNT_NODE == "SELECT COUNT(*) FROM nodes WHERE node_id = ?"
SQL_INSERT_NODE == "INSERT INTO nodes (node_id) VALUES (?)"
SQL_INSERT_LABEL == "INSERT INTO rdf_labels (s, label) VALUES (?, ?)"
SQL_INSERT_PROP == "INSERT INTO rdf_props (s, key, val) VALUES (?, ?, ?)"
SQL_INSERT_EMB == "INSERT INTO kg_NodeEmbeddings (id, emb) VALUES (?, TO_VECTOR(?))"
SQL_INSERT_EDGE == "INSERT INTO rdf_edges (s, p, o_id) VALUES (?, ?, ?)"
SQL_UPDATE_PROP == "UPDATE rdf_props SET val = ? WHERE s = ? AND key = ?"
SQL_DELETE_EMB == "DELETE FROM kg_NodeEmbeddings WHERE id = ?"
SQL_DELETE_EDGES == "DELETE FROM rdf_edges WHERE s = ? OR o_id = ?"
SQL_DELETE_PROPS == "DELETE FROM rdf_props WHERE s = ?"
SQL_DELETE_LABELS == "DELETE FROM rdf_labels WHERE s = ?"
SQL_DELETE_NODE == "DELETE FROM nodes WHERE node_id = ?"

SQL_MERGE_NODE == "INSERT INTO Graph_KG.nodes (node_id) SELECT ? WHERE NOT EXISTS (SELECT 1 FROM Graph_KG.nodes WHERE node_id = ?)"
SQL_MERGE_LABEL == "INSERT INTO Graph_KG.rdf_labels (s, label) SELECT ?, ? WHERE NOT EXISTS (SELECT 1 FROM Graph_KG.rdf_labels WHERE s = ? AND label = ?)"
SQL_MERGE_PROP == "INSERT INTO Graph_KG.rdf_props (s, \"key\", val) SELECT ?, ?, ? WHERE NOT EXISTS (SELECT 1 FROM Graph_KG.rdf_props WHERE s = ? AND \"key\" = ?)"
SQL_MERGE_EDGE == "INSERT INTO Graph_KG.rdf_edges (s, p, o_id) SELECT ?, ?, ? WHERE NOT EXISTS (SELECT 1 FROM Graph_KG.rdf_edges WHERE s = ? AND p = ? AND o_id = ?)"

SQL_SELECT_LABEL == "SELECT n0.node_id FROM nodes n0 JOIN rdf_labels l0 ON l0.s = n0.node_id AND l0.label = ?"

\* Number of positional '?' placeholders of each statement text.
Placeholders(sql) ==
  CASE sql \in {SQL_START, SQL_COMMIT, SQL_ROLLBACK} -> 0
    [] sql \in {SQL_COUNT_NODE, SQL_INSERT_NODE, SQL_DELETE_EMB, SQL_DELETE_PROPS,
                SQL_DELETE_LABELS, SQL_DELETE_NODE, SQL_SELECT_LABEL} -> 1
    [] sql \in {SQL_INSERT_LABEL, SQL_INSERT_EMB, SQL_DELETE_EDGES, SQL_MERGE_NODE} -> 2
    [] sql \in {SQL_INSERT_PROP, SQL_INSERT_EDGE, SQL_UPDATE_PROP} -> 3
    [] sql = SQL_MERGE_LABEL -> 4
    [] sql = SQL_MERGE_PROP -> 5
    [] sql = SQL_MERGE_EDGE -> 6

\* The table a statement writes to ("" for statements that touch no table).
TableOf(sql) ==
  CASE sql \in {SQL_INSERT_NODE, SQL_MERGE_NODE, SQL_DELETE_NODE} -> "nodes"
    [] sql \in {SQL_INSERT_LABEL, SQL_MERGE_LABEL, SQL_DELETE_LABELS} -> "rdf_labels"
    [] sql \in {SQL_INSERT_PROP, SQL_MERGE_PROP, SQL_UPDATE_PROP, SQL_DELETE_PROPS} -> "rdf_props"
    [] sql \in {SQL_INSERT_EDGE, SQL_MERGE_EDGE, SQL_DELETE_EDGES} -> "rdf_edges"
    [] sql \in {SQL_INSERT_EMB, SQL_DELETE_EMB} -> "kg_NodeEmbeddings"
    [] OTHER -> ""

PropRows(d, s, k) == { r \in d.rdf_props : r[1] = s /\ r[2] = k }

\* Rows of the statement's table after the statement, constraints not yet
\* checked.  p is the bound parameter list.
Effect(sql, p, d) ==
  CASE sql = SQL_INSERT_NODE -> [d EXCEPT !.nodes = @ \cup {p[1]}]
    [] sql = SQL_MERGE_NODE ->
         IF p[2] \in d.nodes THEN d ELSE [d EXCEPT !.nodes = @ \cup {p[1]}]
    [] sql = SQL_INSERT_LABEL -> [d EXCEPT !.rdf_labels = @ \cup {<<p[1], p[2]>>}]
    [] sql = SQL_MERGE_LABEL ->
         IF <<p[3], p[4]>> \in d.rdf_labels THEN d
         ELSE [d EXCEPT !.rdf_labels = @ \cup {<<p[1], p[2]>>}]
    [] sql = SQL_INSERT_PROP -> [d EXCEPT !.rdf_props = @ \cup {<<p[1], p[2], p[3]>>}]
    [] sql = SQL_MERGE_PROP ->
         IF PropRows(d, p[4], p[5]) # {} THEN d
         ELSE [d EXCEPT !.rdf_props = @ \cup {<<p[1], p[2], p[3]>>}]
    [] sql = SQL_UPDATE_PROP ->
         [d EXCEPT !.rdf_props =
            { IF r[1] = p[2] /\ r[2] = p[3] THEN <<r[1], r[2], p[1]>> ELSE r : r \in @ }]
    [] sql = SQL_INSERT_EDGE -> [d EXCEPT !.rdf_edges = @ \cup {<<p[1], p[2], p[3]>>}]
    [] sql = SQL_MERGE_EDGE ->
         IF <<p[4], p[5], p[6]>> \in d.rdf_edges THEN d
         ELSE [d EXCEPT !.rdf_edges = @ \cup {<<p[1], p[2], p[3]>>}]
    [] sql = SQL_INSERT_EMB -> [d EXCEPT !.kg_NodeEmbeddings = @ \cup {p[1]}]
    [] sql = SQL_DELETE_EMB -> [d EXCEPT !.kg_NodeEmbeddings = @ \ {p[1]}]
    [] sql = SQL_DELETE_EDGES ->
         [d EXCEPT !.rdf_edges = { r \in @ : ~(r[1] = p[1] \/ r[3] = p[2]) }]
    [] sql = SQL_DELETE_PROPS -> [d EXCEPT !.rdf_props = { r \in @ : r[1] # p[1] }]
    [] sql = SQL_DELETE_LABELS -> [d EXCEPT !.rdf_labels = { r \in @ : r[1] # p[1] }]
    [] sql = SQL_DELETE_NODE -> [d EXCEPT !.nodes = @ \ {p[1]}]
    [] OTHER -> d

\* An INSERT of a row whose key is already present violates the primary key
\* (or the u_spo unique constraint).
DuplicateKey(sql, p, d) ==
  CASE sql = SQL_INSERT_NODE -> p[1] \in d.nodes
    [] sql = SQL_INSERT_LABEL -> <<p[1], p[2]>> \in d.rdf_labels
    [] sql = SQL_INSERT_PROP -> PropRows(d, p[1], p[2]) # {}
    [] sql = SQL_MERGE_PROP ->
         PropRows(d, p[4], p[5]) = {} /\ PropRows(d, p[1], p[2]) # {}
    [] sql = SQL_INSERT_EDGE -> <<p[1], p[2], p[3]>> \in d.rdf_edges
    [] sql = SQL_INSERT_EMB -> p[1] \in d.kg_NodeEmbeddings
    [] OTHER -> FALSE

\* cursor.rowcount after the statement: rows inserted, updated or deleted.
RowCount(sql, p, d) ==
  CASE sql = SQL_UPDATE_PROP -> Cardinality(PropRows(d, p[2], p[3]))
    [] sql = SQL_COUNT_NODE -> 1
    [] sql = SQL_SELECT_LABEL -> Cardinality({ r \in d.rdf_labels : r[2] = p[1] })
    [] OTHER ->
         LET t == TableOf(sql)
             e == Effect(sql, p, d)
         IN  IF t = "" THEN 0
             ELSE Cardinality((d[t] \ e[t]) \cup (e[t] \ d[t]))

\* One statement run by the database: the result carries the error raised
\* ("none" when the statement succeeded), the tables and the row count.
\* A failed statement leaves the tables as they were.
ExecSQL(sql, p, d) ==
  IF Len(p) # Placeholders(sql)
  THEN [err |-> "ARGS", db |-> d, rowcount |-> 0]
  ELSE IF DuplicateKey(sql, p, d)
  THEN [err |-> "UNIQUE", db |-> d, rowcount |-> 0]
  ELSE IF ~RefInt(Effect(sql, p, d))
  THEN [err |-> "FK", db |-> d, rowcount |-> 0]
  ELSE [err |-> "none", db |-> Effect(sql, p, d), rowcount |-> RowCount(sql, p, d)]

(***************************************************************************)
(* Python values that are either a list or a scalar                        *)
(***************************************************************************)
PyList(l) == [n |-> 0, s |-> "", t |-> "list", l |-> l]

PyStr(s) == [n |-> 0, s |-> s, t |-> "str", l |-> <<>>]

PyInt(n) == [n |-> n, s |-> "", t |-> "int", l |-> <<>>]

PyNone == [n |-> 0, s |-> "", t |-> "none", l |-> <<>>]

NONE == "<None>"

LabelProtein == "Protein"

RelType == "T"

EmbDim == 768

EmbLens == {0, 3, EmbDim}

EmbStr == "[0.1,...]"

(***************************************************************************)
(* Requests                                                                *)
(***************************************************************************)
CypherExecutors == {"gql", "fixture"}

Request(executor, op, id, id2, name, function, emb, detach) ==
  [ executor |-> executor, op |-> op, id |-> id, id2 |-> id2, name |-> name,
    function |-> function, emb |-> emb, detach |-> detach,
    organism |-> NONE, confidence |-> NONE, labels |-> <<LabelProtein>> ]

NoRequest == Request("none", "none", "", "", NONE, NONE, 0, FALSE)

\* Optional inputs of create_protein (function, organism) and of
\* update_protein (function, confidence).
OptPairs == { <<NONE, NONE>>, <<"kinase", NONE>>, <<NONE, "x">> }

NameOnCreate == "TP53"

LabelGene == "Gene"

\* Label lists of a CREATE pattern: one label or two.
CreateLabels == { <<LabelProtein>>, <<LabelProtein, LabelGene>> }

\* CREATE with one label, with and without a name and an embedding, and
\* CREATE of the last id with two labels, a name and an embedding.
CreateQueries ==
  { Request("cypher", "CREATE", i, "", n, NONE, e, FALSE) :
      i \in Ids, n \in {NameOnCreate, NONE}, e \in {0, EmbDim} }
  \cup { [Request("cypher", "CREATE", IdOf(NumIds), "", NameOnCreate, NONE, EmbDim, FALSE)
            EXCEPT !.labels = ls] : ls \in CreateLabels }

CypherQueries ==
  CreateQueries
  \cup { Request("cypher", "MERGE", i, "", NONE, NONE, 0, FALSE) : i \in Ids }
  \cup { Request("cypher", "SET", i, "", n, NONE, 0, FALSE) : i \in Ids, n \in Vals }
  \cup { Request("cypher", "DELETE", i, "", NONE, NONE, 0, dt) : i \in Ids, dt \in BOOLEAN }
  \cup { Request("cypher", "CREATE_REL", i, IdOf(1), NONE, NONE, 0, FALSE) : i \in Ids }
  \cup { Request("cypher", "READ", "", "", NONE, NONE, 0, FALSE) }

EngineCalls ==
  { Request("engine", "create_node", i, "", NameOnCreate, NONE, 0, FALSE) : i \in Ids }

\* Optional fields vary with a full embedding and without a new name; the
\* embedding length and the new name vary with the optional fields absent.
ResolverCalls ==
  { [Request("resolver", "create_protein", i, "", NameOnCreate, o[1], EmbDim, FALSE)
       EXCEPT !.organism = o[2]] : i \in Ids, o \in OptPairs }
  \cup { Request("resolver", "create_protein", i, "", NameOnCreate, NONE, e, FALSE) :
            i \in Ids, e \in EmbLens }
  \cup { [Request("resolver", "update_protein", i, "", NONE, o[1], 0, FALSE)
       EXCEPT !.confidence = o[2]] : i \in Ids, o \in OptPairs }
  \cup { Request("resolver", "update_protein", i, "", n, NONE, 0, FALSE) :
            i \in Ids, n \in Vals }
  \cup { Request("resolver", "delete_protein", i, "", NONE, NONE, 0, FALSE) : i \in Ids }

\* The templates without their WHERE NOT EXISTS guard.
get_bulk_insert_sql_unguarded(table) ==
  CASE table = "nodes" -> SQL_INSERT_NODE
    [] table = "rdf_labels" -> SQL_INSERT_LABEL
    [] table = "rdf_props" -> SQL_INSERT_PROP
    [] table = "rdf_edges" -> SQL_INSERT_EDGE

\* GraphSchema.get_bulk_insert_sql: the INSERT ... WHERE NOT EXISTS templates.
get_bulk_insert_sql(table) ==
  CASE table = "nodes" -> SQL_MERGE_NODE
    [] table = "rdf_labels" -> SQL_MERGE_LABEL
    [] table = "rdf_props" -> SQL_MERGE_PROP
    [] table = "rdf_edges" -> SQL_MERGE_EDGE

WriteClauses == {"CREATE", "MERGE", "SET", "DELETE", "CREATE_REL"}

(***************************************************************************)
(* Write planning of the Cypher translator (section 4.3.4)                 *)
(***************************************************************************)
Stmt(sql, p) == [sql |-> sql, p |-> p, when |-> "always"]

\* The property map of a CREATE pattern, in the order written.
CreateProps(q) ==
  << <<"id", q.id>> >> \o (IF q.name # NONE THEN << <<"name", q.name>> >> ELSE <<>>)

\* CREATE (n:L1:L2 {id: .., name: ..}): nodes first, then one insert per
\* label, then one insert per property in property order, then the
\* embedding.
CreateStmts(q) ==
  << Stmt(SQL_MERGE_NODE, <<q.id, q.id>>) >>
  \o [i \in DOMAIN q.labels |-> Stmt(SQL_INSERT_LABEL, <<q.id, q.labels[i]>>)]
  \o [i \in DOMAIN CreateProps(q) |->
        Stmt(SQL_INSERT_PROP, <<q.id, CreateProps(q)[i][1], CreateProps(q)[i][2]>>)]
  \o (IF q.emb > 0 THEN << Stmt(SQL_INSERT_EMB, <<q.id, EmbStr>>) >> ELSE <<>>)

\* MERGE (n:Protein {id: ..}): idempotent inserts keyed by node_id,
\* (s, label) and (s, key).
MergeStmts(q) ==
  << Stmt(get_bulk_insert_sql("nodes"), <<q.id, q.id>>),
     Stmt(get_bulk_insert_sql("rdf_labels"), <<q.id, LabelProtein, q.id, LabelProtein>>),
     Stmt(get_bulk_insert_sql("rdf_props"), <<q.id, "id", q.id, q.id, "id">>) >>

\* SET n.name = ..: UPDATE keyed by (s, key), then the INSERT that takes
\* effect only if no row exists.
SetStmts(q) ==
  << Stmt(SQL_UPDATE_PROP, <<q.name, q.id, "name">>),
     Stmt(SQL_MERGE_PROP, <<q.id, "name", q.name, q.id, "name">>) >>

\* DELETE n and DETACH DELETE n.
DeleteStmts(q) ==
  << Stmt(SQL_DELETE_EMB, <<q.id>>),
     Stmt(SQL_DELETE_EDGES, <<q.id, q.id>>),
     Stmt(SQL_DELETE_PROPS, <<q.id>>),
     Stmt(SQL_DELETE_LABELS, <<q.id>>),
     Stmt(SQL_DELETE_NODE, <<q.id>>) >>

\* CREATE (a {id: ..})-[:T]->(b {id: ..}): both endpoints, then the edge.
CreateRelStmts(q) ==
  << Stmt(SQL_MERGE_NODE, <<q.id, q.id>>),
     Stmt(SQL_MERGE_NODE, <<q.id2, q.id2>>),
     Stmt(SQL_INSERT_EDGE, <<q.id, RelType, q.id2>>) >>

WriteStmts(q) ==
  CASE q.op = "CREATE" -> CreateStmts(q)
    [] q.op = "MERGE" -> MergeStmts(q)
    [] q.op = "SET" -> SetStmts(q)
    [] q.op = "DELETE" -> DeleteStmts(q)
    [] q.op = "CREATE_REL" -> CreateRelStmts(q)
    [] q.op = "create_node" -> CreateStmts(q)
    [] OTHER -> <<>>

\* The SQLProgram returned by translate_to_sql.
SQLProgram(sql, parameters, is_transactional) ==
  [sql |-> sql, parameters |-> parameters, is_transactional |-> is_transactional]

NoProgram == SQLProgram(PyList(<<>>), <<>>, FALSE)

TranslateWrite(q) ==
  LET ss == WriteStmts(q)
  IN  SQLProgram(PyList([i \in DOMAIN ss |-> ss[i].sql]),
                 [i \in DOMAIN ss |-> PyList(ss[i].p)],
                 TRUE)

\* A read query yields one SELECT string; its bound values are the single
\* list held in parameters[0].
TranslateRead(q) ==
  SQLProgram(PyStr(SQL_SELECT_LABEL), << PyList(<<LabelProtein>>) >>, FALSE)

translate_to_sql(q) ==
  IF q.op \in WriteClauses THEN TranslateWrite(q) ELSE TranslateRead(q)

(***************************************************************************)
(* GraphQL mutation resolvers                                              *)
(***************************************************************************)
Guarded(sql, p, when) == [sql |-> sql, p |-> p, when |-> when]

\* create_protein with the label inserted before the node row.
CreateProteinStepsLabelFirst(r) ==
  << Stmt(SQL_INSERT_LABEL, <<r.id, LabelProtein>>),
     Stmt(SQL_INSERT_NODE, <<r.id>>),
     Stmt(SQL_INSERT_PROP, <<r.id, "name", r.name>>) >>

\* create_protein with the name property inserted before the label.
CreateProteinStepsPropsFirst(r) ==
  << Stmt(SQL_INSERT_NODE, <<r.id>>),
     Stmt(SQL_INSERT_PROP, <<r.id, "name", r.name>>),
     Stmt(SQL_INSERT_LABEL, <<r.id, LabelProtein>>) >>

\* Mutation.create_protein: statements issued inside the try block.  The
\* embedding length check raises after the properties were inserted.
CreateProteinSteps(r) ==
  << Stmt(SQL_INSERT_NODE, <<r.id>>),
     Stmt(SQL_INSERT_LABEL, <<r.id, LabelProtein>>),
     Stmt(SQL_INSERT_PROP, <<r.id, "name", r.name>>) >>
  \o (IF r.function # NONE
      THEN << Stmt(SQL_INSERT_PROP, <<r.id, "function", r.function>>) >> ELSE <<>>)
  \o (IF r.organism # NONE
      THEN << Stmt(SQL_INSERT_PROP, <<r.id, "organism", r.organism>>) >> ELSE <<>>)
  \o (IF r.emb > 0
      THEN (IF r.emb # EmbDim
            THEN << Guarded("", <<>>, "raise") >>
            ELSE << Stmt(SQL_INSERT_EMB, <<r.id, EmbStr>>) >>)
      ELSE <<>>)

\* Mutation.update_protein: the list of (key, val) updates.
Updates(r) ==
  (IF r.name # NONE THEN << <<"name", r.name>> >> ELSE <<>>)
  \o (IF r.function # NONE THEN << <<"function", r.function>> >> ELSE <<>>)
  \o (IF r.confidence # NONE THEN << <<"confidence", r.confidence>> >> ELSE <<>>)

\* The upsert without its INSERT branch.
UpsertPairUpdateOnly(id, kv) ==
  << Stmt(SQL_UPDATE_PROP, <<kv[2], id, kv[1]>>) >>

\* One UPDATE per (key, val), each followed by the INSERT that runs only
\* when cursor.rowcount == 0.
UpsertPair(id, kv) ==
  << Stmt(SQL_UPDATE_PROP, <<kv[2], id, kv[1]>>),
     Guarded(SQL_INSERT_PROP, <<id, kv[1], kv[2]>>, "rowcount0") >>

UpdateProteinSteps(r) ==
  Flatten([i \in DOMAIN Updates(r) |-> UpsertPair(r.id, Updates(r)[i])])

\* delete_protein with the node row deleted first.
DeleteProteinStepsNodeFirst(r) ==
  << Stmt(SQL_DELETE_NODE, <<r.id>>),
     Stmt(SQL_DELETE_EMB, <<r.id>>),
     Stmt(SQL_DELETE_EDGES, <<r.id, r.id>>),
     Stmt(SQL_DELETE_PROPS, <<r.id>>),
     Stmt(SQL_DELETE_LABELS, <<r.id>>) >>

\* delete_protein that leaves the edges of the node in place.
DeleteProteinStepsKeepEdges(r) ==
  << Stmt(SQL_DELETE_EMB, <<r.id>>),
     Stmt(SQL_DELETE_PROPS, <<r.id>>),
     Stmt(SQL_DELETE_LABELS, <<r.id>>),
     Stmt(SQL_DELETE_NODE, <<r.id>>) >>

\* Mutation.delete_protein: deletes in reverse order of FK dependencies.
DeleteProteinSteps(r) ==
  << Stmt(SQL_DELETE_EMB, <<r.id>>),
     Stmt(SQL_DELETE_EDGES, <<r.id, r.id>>),
     Stmt(SQL_DELETE_PROPS, <<r.id>>),
     Stmt(SQL_DELETE_LABELS, <<r.id>>),
     Stmt(SQL_DELETE_NODE, <<r.id>>) >>

ResolverSteps(r) ==
  CASE r.op = "create_protein" -> CreateProteinSteps(r)
    [] r.op = "update_protein" -> UpdateProteinSteps(r)
    [] r.op = "delete_protein" -> DeleteProteinSteps(r)
    [] OTHER -> <<>>

\* The existence check each resolver makes before its try block:
\* create_protein refuses an id that exists, the other two one that does not.
PrecheckPasses(r, d) ==
  IF r.op = "create_protein" THEN r.id \notin d.nodes ELSE r.id \in d.nodes

(***************************************************************************)
(* State                                                                   *)
(***************************************************************************)
VARIABLES
  db,        \* the tables as the connection sees them
  snapshot,  \* the tables as of the last commit
  req,       \* the request being served
  prog,      \* the SQLProgram of a Cypher request
  steps,     \* the statement list of a resolver or engine call
  idx,       \* index of the next statement
  pc,        \* position of the executor
  log,       \* statements sent to the cursor for this request
  rowcount,  \* cursor.rowcount
  failure,   \* the error that ended the statement loop, "none" if none
  outcome,   \* what the caller gets
  pre,       \* the tables when the request started
  prev,      \* the previous request and its outcome
  txns       \* requests served so far

dbvars == <<db, snapshot, req, prog, steps, idx, pc, log, rowcount, failure,
            outcome, pre, prev, txns>>

\* One TranslationContext and the translate call that owns it.
VARIABLES
  select_items,      \* accumulated SELECT items
  from_clauses,      \* accumulated FROM clauses
  join_clauses,      \* accumulated JOIN clauses
  where_conditions,  \* accumulated WHERE conditions
  order_by_items,    \* accumulated ORDER BY items
  parameters,        \* the parameter buffer
  tstate,            \* "building", "built" or the error raised
  sql_out,           \* the text returned by build_sql, as tokens
  page,              \* the SKIP / LIMIT operands and the caller's params
  property_refs      \* the property accesses lowered so far

ctxvars == <<select_items, from_clauses, join_clauses, where_conditions,
             order_by_items, parameters, tstate, sql_out, page, property_refs>>

\* Procedure-call lowering and the engine that runs the translated query.
VARIABLES
  stages,            \* the stage list: one CTE text per lowered call
  all_stage_params,  \* the stage parameter list
  variable_aliases,  \* the alias table: variable -> SQL alias, "" if unbound
  alias_counter,     \* TranslationContext._alias_counter
  call,              \* the procedure call being translated
  host_embedding,    \* whether the host exposes EMBEDDING()
  probe_cache,       \* the engine's cached probe result
  probes,            \* probes made so far
  engine_state,      \* position of the engine's execute_cypher
  executed,          \* SQL texts the engine has run for this query
  queries,           \* queries served so far
  resolved           \* the variable references resolved for this query

procvars == <<stages, all_stage_params, variable_aliases, alias_counter, call,
              resolved, host_embedding, probe_cache, probes, engine_state, executed, queries>>

\* The function calls of the query being translated, as written.
VARIABLES
  functions

exprvars == <<functions>>

\* The migration's bulk insert into nodes, on a connection of its own.
VARIABLES
  node_ids,          \* the list handed to bulk_insert_nodes
  position,          \* the index i of the loop
  inserted_count,    \* the count the function returns
  nodes_rows,        \* the rows of nodes as the connection sees them
  nodes_committed,   \* the rows of nodes that are committed
  nodes_before,      \* the rows of nodes when the function was called
  bulk_pc            \* position of bulk_insert_nodes

bulkvars == <<node_ids, position, inserted_count, nodes_rows, nodes_committed,
              nodes_before, bulk_pc>>

\* CoreQuery.nodes of the GraphQL API: its arguments and the statement it
\* hands to the cursor.
VARIABLES
  arg_labels,          \* labels: None or a list of labels
  arg_where,           \* where: None or a PropertyFilter
  arg_limit,           \* limit
  arg_offset,          \* offset
  arg_order_by,        \* order_by: None, "created_at", "id" or a property key
  arg_order_direction, \* order_direction as the caller wrote it
  has_connection,      \* whether the context holds a db_connection
  nodes_query,         \* the pieces of the query text, in text order
  nodes_params,        \* the params list given to cursor.execute
  nodes_pc             \* position of the resolver

nodesvars == <<arg_labels, arg_where, arg_limit, arg_offset, arg_order_by,
               arg_order_direction, has_connection, nodes_query, nodes_params, nodes_pc>>

\* Query.execute_cypher of the GraphQL schema, statement by statement.
VARIABLES
  gql_connection,    \* whether the context holds a db_connection
  gql_query,         \* the kind of query text the caller sent
  gql_params,        \* the kind of value passed as params
  gql_statements,    \* the number of statements of the translated program
  gql_pc,            \* position of the resolver
  gql_sent,          \* the statements handed to cursor.execute, in order
  gql_cursors,       \* cursors opened by the resolver
  gql_closed,        \* calls of cursor.close()
  gql_translator_params, \* what translate_to_sql received as params
  gql_result         \* what the resolver gave its caller

gqlvars == <<gql_connection, gql_query, gql_params, gql_statements, gql_pc, gql_sent,
             gql_cursors, gql_closed, gql_translator_params, gql_result>>

\* Two invocations of the translator on one query, each with a context.
VARIABLES
  iso_ast,       \* the clauses of the query both invocations translate
  iso_heap,      \* the list and dict objects, by identity
  iso_fields,    \* per invocation, the objects its context's fields refer to
  iso_counter,   \* per invocation, the context's _alias_counter
  iso_pos,       \* per invocation, the clauses already translated
  iso_result     \* per invocation, the SQLQuery returned

isovars == <<iso_ast, iso_heap, iso_fields, iso_counter, iso_pos, iso_result>>

\* Two executions of update_protein, each in a transaction of its own.
VARIABLES
  up_rows,       \* the committed rows of rdf_props of the protein
  up_pending,    \* per execution, the uncommitted writes of its transaction
  up_updates,    \* per execution, the keys of its updates list
  up_idx,        \* per execution, the position in the updates list
  up_rowcount,   \* per execution, cursor.rowcount of its last UPDATE
  up_rejected,   \* per execution, whether an INSERT of it was rejected
  up_pc          \* per execution, the position in the resolver

upvars == <<up_rows, up_pending, up_updates, up_idx, up_rowcount, up_rejected, up_pc>>

\* The variables of the components that run on their own.
auxvars == <<bulkvars, nodesvars, gqlvars, isovars, upvars>>

vars == <<dbvars, ctxvars, procvars, exprvars, auxvars>>

\* Variables outside the database and its executors.
nondb == <<ctxvars, procvars, exprvars, auxvars>>

\* Variables outside the translation context.
nonctx == <<dbvars, procvars, exprvars, auxvars>>

\* Variables outside the procedure-call lowering and its context.
nonproc == <<dbvars, exprvars, auxvars>>

\* Variables outside the expression lowering and its context.
nonexpr == <<dbvars, procvars, auxvars>>

\* Variables outside the bulk insert.
nonbulk == <<dbvars, ctxvars, procvars, exprvars, nodesvars, gqlvars, isovars, upvars>>

BulkIdle ==
  /\ node_ids = <<>>
  /\ position = 0
  /\ inserted_count = 0
  /\ nodes_rows = {}
  /\ nodes_committed = {}
  /\ nodes_before = {}
  /\ bulk_pc = "idle"

PropertyFilter(key, value, operator) ==
  [key |-> key, value |-> value, operator |-> operator]

NodesIdle ==
  /\ arg_labels = PyNone
  /\ arg_where = PyNone
  /\ arg_limit = 0
  /\ arg_offset = 0
  /\ arg_order_by = NONE
  /\ arg_order_direction = NONE
  /\ has_connection = FALSE
  /\ nodes_query = <<>>
  /\ nodes_params = <<>>
  /\ nodes_pc = "idle"

GqlIdle ==
  /\ gql_connection = FALSE
  /\ gql_query = "read"
  /\ gql_params = "none"
  /\ gql_statements = 1
  /\ gql_pc = "idle"
  /\ gql_sent = <<>>
  /\ gql_cursors = 0
  /\ gql_closed = 0
  /\ gql_translator_params = "none"
  /\ gql_result = "none"

IsoIdle ==
  /\ iso_ast = <<>>
  /\ iso_heap = <<>>
  /\ iso_fields = <<>>
  /\ iso_counter = <<>>
  /\ iso_pos = <<>>
  /\ iso_result = <<>>

UpIdle ==
  /\ up_rows = {}
  /\ up_pending = <<>>
  /\ up_updates = <<>>
  /\ up_idx = <<>>
  /\ up_rowcount = <<>>
  /\ up_rejected = <<>>
  /\ up_pc = <<>>

AuxIdle == BulkIdle /\ NodesIdle /\ GqlIdle /\ IsoIdle /\ UpIdle

Issued(sql, p) == [sql |-> sql, p |-> p]

\* statements = sql if isinstance(sql, list) else [sql]
Statements(pg) == IF pg.sql.t = "list" THEN pg.sql.l ELSE << pg.sql.s >>

\* The lookup shifted by one statement.
ParamsForStmtShifted(pg, i) ==
  IF i + 1 <= Len(pg.parameters) THEN pg.parameters[i + 1] ELSE PyList(<<>>)

\* params_for_stmt = all_params[idx] if idx < len(all_params) else []
ParamsForStmt(pg, i) ==
  IF i <= Len(pg.parameters) THEN pg.parameters[i] ELSE PyList(<<>>)

\* The single-statement branch binding nothing.
ExecParamsEmpty(pg) == PyList(<<>>)

\* exec_params = parameters[0] if parameters else []
ExecParams(pg) ==
  IF pg.parameters # <<>> THEN pg.parameters[1] ELSE PyList(<<>>)

\* The statements the executor will run, with the parameters it binds.
Plan ==
  IF req.executor \in CypherExecutors
  THEN [i \in DOMAIN Statements(prog) |->
          [sql |-> Statements(prog)[i], p |-> ParamsForStmt(prog, i), when |-> "always"]]
  ELSE [i \in DOMAIN steps |->
          [sql |-> steps[i].sql, p |-> PyList(steps[i].p), when |-> steps[i].when]]

\* cursor.execute(sql, params): a parameter object that is not a list
\* cannot be bound positionally.
CursorExecute(sql, p, d) ==
  IF p.t # "list" THEN [err |-> "ARGS", db |-> d, rowcount |-> 0]
  ELSE ExecSQL(sql, p.l, d)

ExplicitTxn == req.executor \in CypherExecutors \cup {"engine"}

BeginText == IF ExplicitTxn THEN SQL_START ELSE "implicit"

CommitText == IF ExplicitTxn THEN SQL_COMMIT ELSE "connection.commit()"

RollbackText == IF ExplicitTxn THEN SQL_ROLLBACK ELSE "connection.rollback()"

\* A populated database: P:1 is a labelled protein with an embedding and an
\* edge to P:2.
SeedDB ==
  [ nodes |-> {IdOf(1), IdOf(2)},
    rdf_labels |-> {<<IdOf(1), LabelProtein>>},
    rdf_props |-> {<<IdOf(1), "id", IdOf(1)>>, <<IdOf(1), "name", "BRCA1">>},
    rdf_edges |-> {<<IdOf(1), RelType, IdOf(2)>>},
    kg_NodeEmbeddings |-> {IdOf(1)} ]

DbInit ==
  /\ db \in {EmptyDB, SeedDB}
  /\ snapshot = db
  /\ req = NoRequest
  /\ prog = NoProgram
  /\ steps = <<>>
  /\ idx = 0
  /\ pc = "idle"
  /\ log = <<>>
  /\ rowcount = 0
  /\ failure = "none"
  /\ outcome = "none"
  /\ pre = db
  /\ prev = [req |-> NoRequest, outcome |-> "none"]
  /\ txns = 0

(***************************************************************************)
(* Executors                                                               *)
(***************************************************************************)
RECURSIVE JoinLines(_)
JoinLines(ls) ==
  IF ls = <<>> THEN ""
  ELSE IF Len(ls) = 1 THEN Head(ls)
  ELSE Head(ls) \o "\n" \o JoinLines(Tail(ls))

\* sql_text = sql if isinstance(sql, str) else "\n".join(sql)
SqlText(pg) == IF pg.sql.t = "str" THEN pg.sql.s ELSE JoinLines(pg.sql.l)

Cur == Plan[idx]

Runnable ==
  /\ pc = "run"
  /\ idx <= Len(Plan)
  /\ \/ Cur.when = "always"
     \/ Cur.when = "rowcount0" /\ rowcount = 0

\* What a failed request gives its caller: the GraphQL field returns an
\* error object, create_node returns False, the others re-raise.
FailureOutcome ==
  CASE req.executor = "gql" -> "error"
    [] req.executor = "engine" -> "false"
    [] OTHER -> "raised"

Start(r, pg, st, nextpc, issued, out) ==
  /\ txns < MaxTxns
  /\ req' = r
  /\ prog' = pg
  /\ steps' = st
  /\ pc' = nextpc
  /\ idx' = 1
  /\ log' = issued
  /\ pre' = db
  /\ outcome' = out
  /\ UNCHANGED <<db, snapshot, rowcount, failure, prev, txns>>
  /\ UNCHANGED nondb

\* Query.execute_cypher and the execute_cypher test fixture: parse and
\* translate, then take the transactional or the single-statement branch.
execute_cypher ==
  /\ pc = "idle"
  /\ \E ex \in CypherExecutors, q \in CypherQueries :
       LET pg == translate_to_sql(q)
       IN  Start([q EXCEPT !.executor = ex], pg, <<>>,
                 IF pg.is_transactional THEN "begin" ELSE "read", <<>>, "none")

\* IRISGraphEngine.create_node
create_node ==
  /\ pc = "idle"
  /\ \E r \in EngineCalls : Start(r, NoProgram, WriteStmts(r), "begin", <<>>, "none")

\* Mutation.create_protein / update_protein / delete_protein up to the try
\* block: the existence check, which raises before anything is written.
resolver_call ==
  /\ pc = "idle"
  /\ \E r \in ResolverCalls :
       LET chk == << Issued(SQL_COUNT_NODE, PyList(<<r.id>>)) >>
       IN  IF PrecheckPasses(r, db)
           THEN Start(r, NoProgram, ResolverSteps(r), "run", chk, "none")
           ELSE Start(r, NoProgram, <<>>, "done", chk, "raised")

Begin ==
  /\ pc = "begin"
  /\ log' = Append(log, Issued(BeginText, PyList(<<>>)))
  /\ snapshot' = db
  /\ pc' = "run"
  /\ UNCHANGED <<db, req, prog, steps, idx, rowcount, failure, outcome, pre, prev, txns>>
  /\ UNCHANGED nondb

StmtOk ==
  /\ Runnable
  /\ LET res == CursorExecute(Cur.sql, Cur.p, db)
     IN  /\ res.err = "none"
         /\ db' = res.db
         /\ rowcount' = res.rowcount
  /\ log' = Append(log, Issued(Cur.sql, Cur.p))
  /\ idx' = idx + 1
  /\ UNCHANGED <<snapshot, req, prog, steps, pc, failure, outcome, pre, prev, txns>>
  /\ UNCHANGED nondb

\* The database rejects the statement.
StmtFail ==
  /\ Runnable
  /\ LET res == CursorExecute(Cur.sql, Cur.p, db)
     IN  /\ res.err # "none"
         /\ failure' = res.err
  /\ log' = Append(log, Issued(Cur.sql, Cur.p))
  /\ pc' = "failed"
  /\ UNCHANGED <<db, snapshot, req, prog, steps, idx, rowcount, outcome, pre, prev, txns>>
  /\ UNCHANGED nondb

\* The statement raises for a reason outside the data (a driver or server
\* error).
StmtFault ==
  /\ Runnable
  /\ failure' = "DBERR"
  /\ log' = Append(log, Issued(Cur.sql, Cur.p))
  /\ pc' = "failed"
  /\ UNCHANGED <<db, snapshot, req, prog, steps, idx, rowcount, outcome, pre, prev, txns>>
  /\ UNCHANGED nondb

\* if cursor.rowcount == 0 was false: the INSERT of the upsert is not run.
StmtSkip ==
  /\ pc = "run"
  /\ idx <= Len(Plan)
  /\ Cur.when = "rowcount0"
  /\ rowcount # 0
  /\ idx' = idx + 1
  /\ UNCHANGED <<db, snapshot, req, prog, steps, pc, log, rowcount, failure, outcome,
                 pre, prev, txns>>
  /\ UNCHANGED nondb

\* raise Exception("Embedding must be 768-dimensional ...")
RaiseStep ==
  /\ pc = "run"
  /\ idx <= Len(Plan)
  /\ Cur.when = "raise"
  /\ failure' = "APP"
  /\ pc' = "failed"
  /\ UNCHANGED <<db, snapshot, req, prog, steps, idx, log, rowcount, outcome, pre, prev, txns>>
  /\ UNCHANGED nondb

Commit ==
  /\ pc = "run"
  /\ idx = Len(Plan) + 1
  /\ log' = Append(log, Issued(CommitText, PyList(<<>>)))
  /\ snapshot' = db
  /\ pc' = "done"
  /\ outcome' = "ok"
  /\ UNCHANGED <<db, req, prog, steps, idx, rowcount, failure, pre, prev, txns>>
  /\ UNCHANGED nondb

\* The except branch without its ROLLBACK: the exception is passed on and
\* the statements already run stay in place.
RollbackOmitted ==
  /\ pc = "failed"
  /\ pc' = "done"
  /\ outcome' = FailureOutcome
  /\ UNCHANGED <<db, snapshot, req, prog, steps, idx, log, rowcount, failure, pre, prev, txns>>
  /\ UNCHANGED nondb

\* except: ROLLBACK (or connection.rollback()), then re-raise.
Rollback ==
  /\ pc = "failed"
  /\ log' = Append(log, Issued(RollbackText, PyList(<<>>)))
  /\ db' = snapshot
  /\ pc' = "done"
  /\ outcome' = FailureOutcome
  /\ UNCHANGED <<snapshot, req, prog, steps, idx, rowcount, failure, pre, prev, txns>>
  /\ UNCHANGED nondb

\* The non-transactional branch: one cursor.execute of the whole text.
ExecRead ==
  /\ pc = "read"
  /\ LET res == CursorExecute(SqlText(prog), ExecParams(prog), db)
     IN  /\ failure' = res.err
         /\ rowcount' = res.rowcount
         /\ outcome' = IF res.err = "none" THEN "ok" ELSE FailureOutcome
  /\ log' = Append(log, Issued(SqlText(prog), ExecParams(prog)))
  /\ pc' = "done"
  /\ UNCHANGED <<db, snapshot, req, prog, steps, idx, pre, prev, txns>>
  /\ UNCHANGED nondb

\* What is kept of a finished request for the next one.
Remember ==
  IF req.op = "MERGE" /\ outcome = "ok"
  THEN [req |-> [req EXCEPT !.executor = "cypher"], outcome |-> outcome]
  ELSE [req |-> NoRequest, outcome |-> "none"]

Finish ==
  /\ pc = "done"
  /\ txns' = txns + 1
  /\ prev' = Remember
  /\ req' = NoRequest
  /\ prog' = NoProgram
  /\ steps' = <<>>
  /\ idx' = 0
  /\ pc' = "idle"
  /\ log' = <<>>
  /\ rowcount' = 0
  /\ failure' = "none"
  /\ outcome' = "none"
  /\ pre' = db
  /\ UNCHANGED <<db, snapshot>>
  /\ UNCHANGED nondb

(***************************************************************************)
(* TranslationContext and the read path of translate                       *)
(***************************************************************************)
Placeholder == "?"

Clause(text, binds) == [text |-> text, binds |-> binds]

Texts(cs) == [i \in DOMAIN cs |-> cs[i].text]

Binds(cs) == Flatten([i \in DOMAIN cs |-> cs[i].binds])

\* TranslationContext.add_parameter: the buffer after the call (the call
\* returns the placeholder).
add_parameter(buf, value) == Append(buf, value)

ParamRef(name) == [n |-> 0, s |-> name, t |-> "param", l |-> <<>>]

ParameterError == [n |-> 0, s |-> "ParameterError", t |-> "error", l |-> <<>>]

Injection == "0; DROP TABLE nodes;--"

Page(skip, limit, params) == [skip |-> skip, limit |-> limit, params |-> params]

Params(limit, offset) == [limit |-> limit, offset |-> offset]

NoPage == Page(PyNone, PyNone, Params(PyNone, PyNone))

\* Values a caller may pass for $offset and $limit; PyNone stands for a
\* name that is absent from params.
ParamValues ==
  {PyNone} \cup { PyInt(i) : i \in 0..MaxPage } \cup { PyStr("abc"), PyStr(Injection) }

SkipOperands == { PyNone, PyInt(MaxPage), ParamRef("offset") }

LimitOperands == { PyNone, PyInt(MaxPage), ParamRef("limit") }

QueryLabels == {"Drug"}

QueryKeys == {"active", "name"}

QueryValues == {"yes"}

\* SKIP / LIMIT operand resolved at translation time: a literal is used as
\* is; a parameter reference must name an integer in params.
ResolveUnchecked(operand, params) ==
  IF operand.t = "param" THEN params[operand.s] ELSE operand

ResolvePagination(operand, params) ==
  IF operand.t # "param" THEN operand
  ELSE IF params[operand.s].t = "int" THEN params[operand.s]
  ELSE ParameterError

\* str() of a value formatted into the SQL text.
Render(v) == IF v.t = "int" THEN ToStr(v.n) ELSE v.s

\* build_sql with the LIMIT / OFFSET tests written as truthiness tests.
build_sql_truthy(distinct, limit, skip) ==
  JoinSeq(
    << <<"SELECT ">> \o (IF distinct THEN <<"DISTINCT ">> ELSE <<>>)
         \o JoinSeq(Texts(select_items), ", ") >>
    \o (IF from_clauses # <<>>
        THEN << <<"FROM ">> \o JoinSeq(Texts(from_clauses), ", ") >> ELSE <<>>)
    \o Texts(join_clauses)
    \o (IF where_conditions # <<>>
        THEN << <<"WHERE ">> \o JoinSeq(Texts(where_conditions), " AND ") >> ELSE <<>>)
    \o (IF order_by_items # <<>>
        THEN << <<"ORDER BY ">> \o JoinSeq(Texts(order_by_items), ", ") >> ELSE <<>>)
    \o (IF limit.t # "none" /\ limit # PyInt(0)
        THEN << <<"LIMIT ", Render(limit)>> >> ELSE <<>>)
    \o (IF skip.t # "none" /\ skip # PyInt(0)
        THEN << <<"OFFSET ", Render(skip)>> >> ELSE <<>>),
    "\n")

\* TranslationContext.build_sql: SELECT, FROM, JOINs, WHERE, ORDER BY,
\* LIMIT, OFFSET joined by newlines.
build_sql(distinct, limit, skip) ==
  JoinSeq(
    << <<"SELECT ">> \o (IF distinct THEN <<"DISTINCT ">> ELSE <<>>)
         \o JoinSeq(Texts(select_items), ", ") >>
    \o (IF from_clauses # <<>>
        THEN << <<"FROM ">> \o JoinSeq(Texts(from_clauses), ", ") >> ELSE <<>>)
    \o Texts(join_clauses)
    \o (IF where_conditions # <<>>
        THEN << <<"WHERE ">> \o JoinSeq(Texts(where_conditions), " AND ") >> ELSE <<>>)
    \o (IF order_by_items # <<>>
        THEN << <<"ORDER BY ">> \o JoinSeq(Texts(order_by_items), ", ") >> ELSE <<>>)
    \o (IF limit.t # "none" THEN << <<"LIMIT ", Render(limit)>> >> ELSE <<>>)
    \o (IF skip.t # "none" THEN << <<"OFFSET ", Render(skip)>> >> ELSE <<>>),
    "\n")

CtxIdle ==
  /\ select_items = <<>>
  /\ from_clauses = <<>>
  /\ join_clauses = <<>>
  /\ where_conditions = <<>>
  /\ order_by_items = <<>>
  /\ parameters = <<>>
  /\ tstate = "building"
  /\ sql_out = <<>>
  /\ page = NoPage
  /\ property_refs = <<>>

DbIdle ==
  /\ db = EmptyDB
  /\ snapshot = EmptyDB
  /\ req = NoRequest
  /\ prog = NoProgram
  /\ steps = <<>>
  /\ idx = 0
  /\ pc = "idle"
  /\ log = <<>>
  /\ rowcount = 0
  /\ failure = "none"
  /\ outcome = "none"
  /\ pre = EmptyDB
  /\ prev = [req |-> NoRequest, outcome |-> "none"]
  /\ txns = 0

\* Clauses lowered so far.
Fragments ==
  Len(from_clauses) + Len(where_conditions) + Len(select_items) + Len(order_by_items)

CanLower == tstate = "building" /\ Fragments < MaxFrags

LabelJoin == <<"JOIN rdf_labels l ON l.s = n0.node_id AND l.label = ", Placeholder>>

\* The join of one property of n, under its own alias.
PropJoin(join) ==
  <<"LEFT JOIN rdf_props " \o join \o " ON " \o join \o ".s = n0.node_id AND "
      \o join \o ".key = ", Placeholder>>

PropAliases == { "p" \o ToStr(j) : j \in 0..MaxFrags }

\* The aliases of the property joins among the join clauses.
JoinedProps(joins) ==
  { a \in PropAliases : \E i \in DOMAIN joins : joins[i].text = PropJoin(a) }

\* A property access that takes a join of its own each time it is written.
property_alias_unshared(joins, key) == "p" \o ToStr(Cardinality(JoinedProps(joins)))

\* The alias a reference to n.key reads: that of the join already emitted
\* for the key, or the next one.
property_alias(joins, key) ==
  LET found == { a \in JoinedProps(joins) :
                   \E i \in DOMAIN joins : joins[i] = Clause(PropJoin(a), <<key>>) }
  IN  IF found # {} THEN CHOOSE a \in found : TRUE
      ELSE "p" \o ToStr(Cardinality(JoinedProps(joins)))

\* The join clauses once n.key is readable through the alias.
with_property_join(joins, join, key) ==
  IF join \in JoinedProps(joins) THEN joins
  ELSE Append(joins, Clause(PropJoin(join), <<key>>))

\* The parameter buffer once n.key is readable: a new join binds its key.
with_property_key(params, joins, join, key) ==
  IF join \in JoinedProps(joins) THEN params ELSE add_parameter(params, key)

\* One lowered property access: the clause list and position of the
\* fragment that reads it, the key and the alias read.
PropUse(item, index, key, join) ==
  [join |-> join, key |-> key, item |-> item, index |-> index]

\* MATCH (n:Label): the node table and one label join bound to the label.
translate_node_pattern ==
  /\ CanLower
  /\ \E label \in QueryLabels :
       /\ parameters' = add_parameter(parameters, label)
       /\ join_clauses' = Append(join_clauses, Clause(LabelJoin, <<label>>))
  /\ from_clauses' = Append(from_clauses, Clause(<<"nodes n0">>, <<>>))
  /\ UNCHANGED <<property_refs, select_items, where_conditions, order_by_items, tstate, sql_out, page>>
  /\ UNCHANGED nonctx

\* WHERE n.key = value: the property join bound to the key, then the
\* condition bound to the value.
translate_where_clause ==
  /\ CanLower
  /\ \E key \in QueryKeys, value \in QueryValues :
       LET join == property_alias(join_clauses, key)
       IN  /\ parameters' =
                add_parameter(with_property_key(parameters, join_clauses, join, key), value)
           /\ join_clauses' = with_property_join(join_clauses, join, key)
           /\ where_conditions' =
                Append(where_conditions,
                       Clause(<<join \o ".val = ", Placeholder>>, <<value>>))
           /\ property_refs' =
                Append(property_refs, PropUse("WHERE", Len(where_conditions) + 1, key, join))
  /\ UNCHANGED <<select_items, from_clauses, order_by_items, tstate, sql_out, page>>
  /\ UNCHANGED nonctx

\* RETURN n.key: the property join bound to the key and a scalar item.
translate_return_property ==
  /\ CanLower
  /\ \E key \in QueryKeys :
       LET join == property_alias(join_clauses, key)
       IN  /\ parameters' = with_property_key(parameters, join_clauses, join, key)
           /\ join_clauses' = with_property_join(join_clauses, join, key)
           /\ select_items' = Append(select_items, Clause(<<join \o ".val">>, <<>>))
           /\ property_refs' =
                Append(property_refs, PropUse("RETURN", Len(select_items) + 1, key, join))
  /\ UNCHANGED <<from_clauses, where_conditions, order_by_items, tstate, sql_out, page>>
  /\ UNCHANGED nonctx

\* RETURN n: the node id column.
translate_return_variable ==
  /\ CanLower
  /\ select_items' = Append(select_items, Clause(<<"n0.node_id">>, <<>>))
  /\ UNCHANGED <<property_refs, from_clauses, join_clauses, where_conditions, order_by_items,
                 parameters, tstate, sql_out, page>>
  /\ UNCHANGED nonctx

\* ORDER BY n: direction defaults to ASC.
translate_order_by ==
  /\ CanLower
  /\ order_by_items' = Append(order_by_items, Clause(<<"n0.node_id ASC">>, <<>>))
  /\ UNCHANGED <<property_refs, select_items, from_clauses, join_clauses, where_conditions,
                 parameters, tstate, sql_out, page>>
  /\ UNCHANGED nonctx

Pages ==
  { Page(sk, lm, Params(pl, po)) :
      sk \in SkipOperands, lm \in LimitOperands, pl \in ParamValues, po \in ParamValues }

\* Pages in which a parameter that no operand names is left out.
RelevantPages ==
  { pg \in Pages :
      /\ (pg.skip.t # "param") => pg.params.offset = PyNone
      /\ (pg.limit.t # "param") => pg.params.limit = PyNone }

Resolved(pg) ==
  [skip |-> ResolvePagination(pg.skip, pg.params),
   limit |-> ResolvePagination(pg.limit, pg.params)]

\* translate_to_sql for a read query, last step: SKIP and LIMIT resolve and
\* build_sql assembles the text.
translate_build ==
  /\ tstate = "building"
  /\ select_items # <<>>
  /\ \E pg \in RelevantPages, distinct \in BOOLEAN :
       /\ Resolved(pg).skip.t # "error"
       /\ Resolved(pg).limit.t # "error"
       /\ page' = pg
       /\ sql_out' = build_sql(distinct, Resolved(pg).limit, Resolved(pg).skip)
  /\ tstate' = "built"
  /\ UNCHANGED <<property_refs, select_items, from_clauses, join_clauses, where_conditions,
                 order_by_items, parameters>>
  /\ UNCHANGED nonctx

\* translate_to_sql raising on a SKIP or LIMIT operand that does not
\* resolve: nothing is returned.
translate_parameter_error ==
  /\ tstate = "building"
  /\ select_items # <<>>
  /\ \E pg \in RelevantPages :
       /\ Resolved(pg).skip.t = "error" \/ Resolved(pg).limit.t = "error"
       /\ page' = pg
  /\ tstate' = "ParameterError"
  /\ UNCHANGED <<property_refs, select_items, from_clauses, join_clauses, where_conditions,
                 order_by_items, parameters, sql_out>>
  /\ UNCHANGED nonctx

(***************************************************************************)
(* Procedure calls: ivg.vector.search (section 4.3.5)                      *)
(***************************************************************************)
RECURSIVE JoinStrs(_, _)
JoinStrs(ls, sep) ==
  IF ls = <<>> THEN ""
  ELSE IF Len(ls) = 1 THEN Head(ls)
  ELSE Head(ls) \o sep \o JoinStrs(Tail(ls), sep)

\* The JSON text of a list of numbers.
JsonList(l) == "[" \o JoinStrs([i \in DOMAIN l |-> ToStr(l[i])], ",") \o "]"

ProcCall(label, nargs, target, topn, similarity, embedding_config) ==
  [label |-> label, nargs |-> nargs, target |-> target, topn |-> topn,
   similarity |-> similarity, embedding_config |-> embedding_config]

NoCall == ProcCall("", 0, PyNone, 0, NONE, NONE)

\* A vector literal and a text as the target argument.
Targets == { PyList(<<1, 0>>), PyStr("flu symptoms") }

Similarities == { NONE, "cosine", "dot_product", "bad_value" }

Configs == { NONE, "my_config" }

ProcCalls ==
  { ProcCall(LabelGene, n, tg, k, sim, cfg) :
      n \in {3, 4}, tg \in Targets, k \in 1..MaxTopN, sim \in Similarities,
      cfg \in Configs }

QueryVars == {"node", "score", "m", "x"}

NoAliases == [v \in QueryVars |-> ""]

\* The reason translate_procedure_call raises for a call, "none" if it
\* does not: argument count, then the similarity option, then the
\* embedding_config a text target needs.
ProcError(c) ==
  IF c.nargs < 4 THEN "at least 4 arguments"
  ELSE IF c.similarity \notin {NONE, "cosine", "dot_product"} THEN "similarity"
  ELSE IF c.target.t = "str" /\ c.embedding_config = NONE THEN "embedding_config"
  ELSE "none"

\* The similarity function named whatever the option says.
SimilarityFnCosineOnly(sim) == "VECTOR_COSINE"

SimilarityFn(sim) ==
  IF sim = "dot_product" THEN "VECTOR_DOT_PRODUCT" ELSE "VECTOR_COSINE"

\* The target lowered as a literal vector whatever its type.
TargetExprLiteralOnly(c) == <<"TO_VECTOR(", Placeholder, ")">>

\* Mode 1 for a list literal, Mode 2 for a string.
TargetExpr(c) ==
  IF c.target.t = "list"
  THEN <<"TO_VECTOR(", Placeholder, ")">>
  ELSE <<"EMBEDDING(", Placeholder, ", ", Placeholder, ")">>

TargetParams(c) ==
  IF c.target.t = "list"
  THEN << JsonList(c.target.l) >>
  ELSE << c.target.s, c.embedding_config >>

\* The VecSearch CTE: top N of kg_NodeEmbeddings joined to rdf_labels on
\* the label, ordered by score descending.
VecSearchCTE(c) ==
  <<"VecSearch AS (", "SELECT TOP ", ToStr(c.topn), " e.id AS node_id, ",
    SimilarityFn(c.similarity), "(e.emb, ">>
  \o TargetExpr(c)
  \o <<") AS score FROM kg_NodeEmbeddings e JOIN rdf_labels l ON l.s = e.id WHERE l.label = ",
       Placeholder, " ORDER BY score DESC", "\n)">>

StageParams(c) == TargetParams(c) \o << c.label >>

\* The stage appended before the call is validated.
CallStagesUnvalidated(st, c) == Append(st, VecSearchCTE(c))

\* The stage list after translate_procedure_call: every argument is
\* validated before anything is appended.
CallStages(st, c) ==
  IF ProcError(c) = "none" THEN Append(st, VecSearchCTE(c)) ELSE st

CallStageParams(ps, c) ==
  IF ProcError(c) = "none" THEN ps \o StageParams(c) ELSE ps

ProcIdle ==
  /\ stages = <<>>
  /\ all_stage_params = <<>>
  /\ variable_aliases = NoAliases
  /\ alias_counter = 0
  /\ call = NoCall
  /\ probe_cache = "unknown"
  /\ probes = 0
  /\ engine_state = "idle"
  /\ executed = <<>>
  /\ queries = 0
  /\ resolved = <<>>

\* The procedure call of a query is lowered before its other clauses.
CanCall ==
  /\ tstate = "building"
  /\ engine_state = "translating"
  /\ stages = <<>>
  /\ call = NoCall
  /\ from_clauses = <<>>

\* translate_procedure_call: one stage and its parameters are appended and
\* the yielded columns are bound to the CTE.
translate_procedure_call ==
  /\ CanCall
  /\ \E c \in ProcCalls :
       /\ ProcError(c) = "none"
       /\ call' = c
       /\ stages' = CallStages(stages, c)
       /\ all_stage_params' = CallStageParams(all_stage_params, c)
  /\ variable_aliases' =
       [variable_aliases EXCEPT !["node"] = "VecSearch", !["score"] = "VecSearch"]
  /\ from_clauses' = Append(from_clauses, Clause(<<"VecSearch">>, <<>>))
  /\ UNCHANGED <<property_refs, select_items, join_clauses, where_conditions, order_by_items,
                 parameters, tstate, sql_out, page>>
  /\ UNCHANGED <<alias_counter, resolved, host_embedding, probe_cache, probes, engine_state,
                 executed, queries>>
  /\ UNCHANGED nonproc

\* translate_procedure_call raising: nothing is appended.
translate_procedure_call_raises ==
  /\ CanCall
  /\ \E c \in ProcCalls :
       /\ ProcError(c) # "none"
       /\ call' = c
       /\ stages' = CallStages(stages, c)
       /\ all_stage_params' = CallStageParams(all_stage_params, c)
  /\ tstate' = "TranslationError"
  /\ UNCHANGED <<property_refs, select_items, from_clauses, join_clauses, where_conditions,
                 order_by_items, parameters, sql_out, page>>
  /\ UNCHANGED <<variable_aliases, alias_counter,
                 resolved, host_embedding, probe_cache, probes, engine_state, executed, queries>>
  /\ UNCHANGED nonproc

\* next_alias that hands the alias out and leaves the counter where it was.
next_alias_stuck(counter, prefix) ==
  [counter |-> counter, alias |-> prefix \o ToStr(counter)]

\* TranslationContext.next_alias: the alias and the counter after it.
next_alias(counter, prefix) ==
  [counter |-> counter + 1, alias |-> prefix \o ToStr(counter)]

\* register_variable that allocates a fresh alias even for a bound variable.
register_variable_rebinding(aliases, counter, variable) ==
  [counter |-> next_alias(counter, "n").counter,
   alias |-> next_alias(counter, "n").alias,
   aliases |-> [aliases EXCEPT ![variable] = next_alias(counter, "n").alias],
   fresh |-> TRUE]

\* TranslationContext.register_variable: a variable already in the alias
\* table keeps its alias and takes no new one.
register_variable(aliases, counter, variable) ==
  IF aliases[variable] = ""
  THEN [counter |-> next_alias(counter, "n").counter,
        alias |-> next_alias(counter, "n").alias,
        aliases |-> [aliases EXCEPT ![variable] = next_alias(counter, "n").alias],
        fresh |-> TRUE]
  ELSE [counter |-> counter, alias |-> aliases[variable], aliases |-> aliases,
        fresh |-> FALSE]

RelRelated == "RELATED"

LabelDrug == "Drug"

NodesFrom(alias) == Clause(<<"nodes " \o alias>>, <<>>)

LabelJoinOn(alias, label) ==
  Clause(<<"JOIN rdf_labels l_" \o alias \o " ON l_" \o alias \o ".s = " \o alias
             \o ".node_id AND l_" \o alias \o ".label = ", Placeholder>>,
         <<label>>)

EdgeJoin(e, left, type) ==
  Clause(<<"JOIN rdf_edges " \o e \o " ON " \o e \o ".s = " \o left \o ".node_id AND "
             \o e \o ".p = ", Placeholder>>,
         <<type>>)

NodeJoin(alias, e) ==
  Clause(<<"JOIN nodes " \o alias \o " ON " \o alias \o ".node_id = " \o e \o ".o_id">>, <<>>)

CanTranslate == tstate = "building" /\ engine_state = "translating"

\* MATCH (node)-[:RELATED]->(m:Drug): node keeps the alias it has, the
\* relationship and m take new ones.
translate_match_relationship ==
  /\ CanTranslate
  /\ variable_aliases["m"] = ""
  /\ select_items = <<>>
  /\ LET left == register_variable(variable_aliases, alias_counter, "node")
         rel == next_alias(left.counter, "e")
         right == register_variable(left.aliases, rel.counter, "m")
     IN  /\ variable_aliases' = right.aliases
         /\ alias_counter' = right.counter
         /\ from_clauses' =
              IF left.fresh THEN Append(from_clauses, NodesFrom(left.alias))
              ELSE from_clauses
         /\ join_clauses' =
              join_clauses
                \o << EdgeJoin(rel.alias, left.alias, RelRelated),
                      NodeJoin(right.alias, rel.alias),
                      LabelJoinOn(right.alias, LabelDrug) >>
         /\ parameters' = add_parameter(add_parameter(parameters, RelRelated), LabelDrug)
  /\ UNCHANGED <<property_refs, select_items, where_conditions, order_by_items, tstate, sql_out, page>>
  /\ UNCHANGED <<stages, all_stage_params, call, resolved, host_embedding, probe_cache, probes,
                 engine_state, executed, queries>>
  /\ UNCHANGED nonproc

\* MATCH (m:Drug)
translate_match_node ==
  /\ CanTranslate
  /\ variable_aliases["m"] = ""
  /\ select_items = <<>>
  /\ LET r == register_variable(variable_aliases, alias_counter, "m")
     IN  /\ variable_aliases' = r.aliases
         /\ alias_counter' = r.counter
         /\ from_clauses' = Append(from_clauses, NodesFrom(r.alias))
         /\ join_clauses' = Append(join_clauses, LabelJoinOn(r.alias, LabelDrug))
         /\ parameters' = add_parameter(parameters, LabelDrug)
  /\ UNCHANGED <<property_refs, select_items, where_conditions, order_by_items, tstate, sql_out, page>>
  /\ UNCHANGED <<stages, all_stage_params, call, resolved, host_embedding, probe_cache, probes,
                 engine_state, executed, queries>>
  /\ UNCHANGED nonproc

\* A bare node variable hydrated into id, labels and properties.
Hydrated(v, alias) ==
  Clause(<<alias \o ".node_id AS " \o v \o "_id", ", ",
           "(SELECT JSON_ARRAYAGG(label) FROM rdf_labels WHERE s = " \o alias
             \o ".node_id) AS " \o v \o "_labels", ", ",
           "(SELECT JSON_ARRAYAGG(JSON_OBJECT('key':\"key\",'value':val)) FROM rdf_props WHERE s = "
             \o alias \o ".node_id) AS " \o v \o "_props">>,
         <<>>)

\* A scalar yielded by the procedure, referenced through the CTE alias.
Scalar(v, alias) == Clause(<<alias \o "." \o v \o " AS " \o v>>, <<>>)

ReturnItem(v, aliases) ==
  IF v = "score" THEN Scalar(v, aliases[v]) ELSE Hydrated(v, aliases[v])

\* One resolved reference: the clause, the variable and the alias found for
\* it in the alias table ("" when the table has none).
Reference(clause, variable, alias) ==
  [alias |-> alias, variable |-> variable, clause |-> clause]

ReturnLists == { <<"node", "score">>, <<"score">>, <<"m">>, <<"node", "x">>, <<"node">> }

\* A lookup that finds every variable bound.
UnboundIgnored(items, aliases) == {}

Unbound(items, aliases) == { i \in DOMAIN items : aliases[items[i]] = "" }

\* RETURN of variables that are all bound.
translate_return_items ==
  /\ CanTranslate
  /\ select_items = <<>>
  /\ \E items \in ReturnLists :
       /\ Unbound(items, variable_aliases) = {}
       /\ select_items' = [i \in DOMAIN items |-> ReturnItem(items[i], variable_aliases)]
       /\ resolved' =
            resolved \o [i \in DOMAIN items |->
                          Reference("RETURN", items[i], variable_aliases[items[i]])]
  /\ UNCHANGED <<property_refs, from_clauses, join_clauses, where_conditions, order_by_items,
                 parameters, tstate, sql_out, page>>
  /\ UNCHANGED <<stages, all_stage_params, variable_aliases, alias_counter, call,
                 host_embedding, probe_cache, probes, engine_state, executed, queries>>
  /\ UNCHANGED nonproc

\* RETURN of a variable no earlier clause introduced.
translate_return_unbound ==
  /\ CanTranslate
  /\ select_items = <<>>
  /\ \E items \in ReturnLists :
       /\ Unbound(items, variable_aliases) # {}
       /\ resolved' =
            Append(resolved,
                   Reference("RETURN",
                             items[CHOOSE i \in Unbound(items, variable_aliases) : TRUE], ""))
  /\ tstate' = "ResolutionError"
  /\ UNCHANGED <<property_refs, select_items, from_clauses, join_clauses, where_conditions,
                 order_by_items, parameters, sql_out, page>>
  /\ UNCHANGED <<stages, all_stage_params, variable_aliases, alias_counter, call,
                 host_embedding, probe_cache, probes, engine_state, executed, queries>>
  /\ UNCHANGED nonproc

\* A WHERE predicate on a variable, written through the variable's alias.
WherePredicate(v, alias) ==
  IF v = "score" THEN Clause(<<alias \o ".score >= ", Placeholder>>, <<"yes">>)
  ELSE Clause(<<alias \o ".node_id = ", Placeholder>>, <<"yes">>)

\* The clauses, besides RETURN, whose expressions name variables.
ReferenceClauses == {"WHERE", "SET", "DELETE"}

\* The queries whose WHERE, SET and DELETE are lowered here: no procedure
\* call, or the plain call with a vector literal.
PlainCall == ProcCall(LabelGene, 4, PyList(<<1, 0>>), 1, NONE, NONE)

CanReference ==
  /\ CanTranslate
  /\ select_items = <<>>
  /\ call \in {NoCall, PlainCall}

\* WHERE on a variable an earlier clause introduced.
translate_where_variable ==
  /\ CanReference
  /\ where_conditions = <<>>
  /\ \E v \in QueryVars :
       /\ variable_aliases[v] # ""
       /\ where_conditions' =
            Append(where_conditions, WherePredicate(v, variable_aliases[v]))
       /\ parameters' = add_parameter(parameters, "yes")
       /\ resolved' = Append(resolved, Reference("WHERE", v, variable_aliases[v]))
  /\ UNCHANGED <<property_refs, select_items, from_clauses, join_clauses, order_by_items, tstate,
                 sql_out, page>>
  /\ UNCHANGED <<stages, all_stage_params, variable_aliases, alias_counter, call,
                 host_embedding, probe_cache, probes, engine_state, executed, queries>>
  /\ UNCHANGED nonproc

\* SET v.k = value or DELETE v on a variable an earlier clause introduced:
\* the variable resolves and the read part of the query is left as it is.
translate_write_variable ==
  /\ CanReference
  /\ \A i \in DOMAIN resolved : resolved[i].clause = "WHERE"
  /\ \E clause \in {"SET", "DELETE"}, v \in QueryVars \ {"score"} :
       /\ variable_aliases[v] # ""
       /\ resolved' = Append(resolved, Reference(clause, v, variable_aliases[v]))
  /\ UNCHANGED ctxvars
  /\ UNCHANGED <<stages, all_stage_params, variable_aliases, alias_counter, call,
                 host_embedding, probe_cache, probes, engine_state, executed, queries>>
  /\ UNCHANGED nonproc

\* WHERE, SET or DELETE naming a variable no earlier clause introduced.
translate_reference_unbound ==
  /\ CanReference
  /\ \E clause \in ReferenceClauses, v \in QueryVars :
       /\ Unbound(<<v>>, variable_aliases) # {}
       /\ resolved' = Append(resolved, Reference(clause, v, ""))
  /\ tstate' = "ResolutionError"
  /\ UNCHANGED <<property_refs, select_items, from_clauses, join_clauses, where_conditions,
                 order_by_items, parameters, sql_out, page>>
  /\ UNCHANGED <<stages, all_stage_params, variable_aliases, alias_counter, call,
                 host_embedding, probe_cache, probes, engine_state, executed, queries>>
  /\ UNCHANGED nonproc

\* Pagination of the queries that follow a procedure call: none, LIMIT
\* $limit with an integer, with the parameter missing, with a string.
ProcPages ==
  { NoPage,
    Page(PyNone, ParamRef("limit"), Params(PyInt(1), PyNone)),
    Page(PyNone, ParamRef("limit"), Params(PyNone, PyNone)),
    Page(PyNone, ParamRef("limit"), Params(PyStr("abc"), PyNone)) }

\* The CTEs of the stage list in front of the main SELECT.
WithStages(main) ==
  IF stages = <<>> THEN main
  ELSE <<"WITH ">> \o JoinSeq(stages, ", ") \o <<"\n">> \o main

\* The values bound to the single statement: stage parameters first.
ProgramParams == all_stage_params \o parameters

\* translate_to_sql returning the SQLProgram of a read query.
translate_finish ==
  /\ CanTranslate
  /\ select_items # <<>>
  /\ \E pg \in ProcPages :
       /\ Resolved(pg).limit.t # "error"
       /\ page' = pg
       /\ sql_out' = WithStages(build_sql(FALSE, Resolved(pg).limit, Resolved(pg).skip))
  /\ tstate' = "built"
  /\ engine_state' = "translated"
  /\ UNCHANGED <<property_refs, select_items, from_clauses, join_clauses, where_conditions,
                 order_by_items, parameters>>
  /\ UNCHANGED <<stages, all_stage_params, variable_aliases, alias_counter, call,
                 resolved, host_embedding, probe_cache, probes, executed, queries>>
  /\ UNCHANGED nonproc

\* translate_to_sql raising on a LIMIT parameter that does not resolve.
translate_finish_raises ==
  /\ CanTranslate
  /\ select_items # <<>>
  /\ \E pg \in ProcPages :
       /\ Resolved(pg).limit.t = "error"
       /\ page' = pg
  /\ tstate' = "ParameterError"
  /\ UNCHANGED <<property_refs, select_items, from_clauses, join_clauses, where_conditions,
                 order_by_items, parameters, sql_out>>
  /\ UNCHANGED procvars
  /\ UNCHANGED nonproc

TranslationErrors == {"TranslationError", "ResolutionError", "ParameterError"}

Mode2 == call.target.t = "str"

\* IRISGraphEngine.execute_cypher: a fresh context for each query.
engine_execute_cypher ==
  /\ engine_state = "idle"
  /\ queries < MaxQueries
  /\ engine_state' = "translating"
  /\ UNCHANGED <<stages, all_stage_params, variable_aliases, alias_counter, call,
                 resolved, host_embedding, probe_cache, probes, executed, queries>>
  /\ UNCHANGED ctxvars
  /\ UNCHANGED nonproc

\* IRISGraphEngine._probe_embedding_support: asks the host once and keeps
\* the answer.
probe_embedding_support ==
  /\ probe_cache = "unknown"
  /\ engine_state \in {"idle", "translated"}
  /\ probe_cache' = IF host_embedding THEN "yes" ELSE "no"
  /\ probes' = probes + 1
  /\ UNCHANGED <<stages, all_stage_params, variable_aliases, alias_counter, call,
                 resolved, host_embedding, engine_state, executed, queries>>
  /\ UNCHANGED ctxvars
  /\ UNCHANGED nonproc

\* The translation error reaches the caller of execute_cypher.
engine_translation_failed ==
  /\ engine_state = "translating"
  /\ tstate \in TranslationErrors
  /\ engine_state' = "failed"
  /\ UNCHANGED <<stages, all_stage_params, variable_aliases, alias_counter, call,
                 resolved, host_embedding, probe_cache, probes, executed, queries>>
  /\ UNCHANGED ctxvars
  /\ UNCHANGED nonproc

\* A text target on a host without EMBEDDING(): RuntimeError before any SQL.
engine_unsupported ==
  /\ engine_state = "translated"
  /\ Mode2
  /\ probe_cache = "no"
  /\ engine_state' = "UnsupportedError"
  /\ UNCHANGED <<stages, all_stage_params, variable_aliases, alias_counter, call,
                 resolved, host_embedding, probe_cache, probes, executed, queries>>
  /\ UNCHANGED ctxvars
  /\ UNCHANGED nonproc

\* The statement run without asking whether the host has EMBEDDING().
CanRunUnprobed(c, cache) == TRUE

\* A text target runs only once the probe has answered yes.
CanRun(c, cache) == c.target.t = "str" => cache = "yes"

\* The engine runs the one statement with its parameters.
engine_run_sql ==
  /\ engine_state = "translated"
  /\ CanRun(call, probe_cache)
  /\ executed' = Append(executed, [sql |-> sql_out, p |-> ProgramParams])
  /\ engine_state' = "done"
  /\ UNCHANGED <<stages, all_stage_params, variable_aliases, alias_counter, call,
                 resolved, host_embedding, probe_cache, probes, queries>>
  /\ UNCHANGED ctxvars
  /\ UNCHANGED nonproc

\* execute_cypher returns or raises; the context of the query is dropped.
engine_return ==
  /\ engine_state \in {"done", "failed", "UnsupportedError"}
  /\ queries' = queries + 1
  /\ engine_state' = "idle"
  /\ select_items' = <<>>
  /\ from_clauses' = <<>>
  /\ join_clauses' = <<>>
  /\ where_conditions' = <<>>
  /\ order_by_items' = <<>>
  /\ parameters' = <<>>
  /\ tstate' = "building"
  /\ sql_out' = <<>>
  /\ page' = NoPage
  /\ property_refs' = <<>>
  /\ stages' = <<>>
  /\ all_stage_params' = <<>>
  /\ variable_aliases' = NoAliases
  /\ alias_counter' = 0
  /\ call' = NoCall
  /\ executed' = <<>>
  /\ resolved' = <<>>
  /\ UNCHANGED <<host_embedding, probe_cache, probes>>
  /\ UNCHANGED nonproc

(***************************************************************************)
(* Function calls in expressions (section 4.3.2)                           *)
(***************************************************************************)
LowerLetters ==
  <<"a", "b", "c", "d", "e", "f", "g", "h", "i", "j", "k", "l", "m", "n", "o", "p",
    "q", "r", "s", "t", "u", "v", "w", "x", "y", "z">>

UpperLetters ==
  <<"A", "B", "C", "D", "E", "F", "G", "H", "I", "J", "K", "L", "M", "N", "O", "P",
    "Q", "R", "S", "T", "U", "V", "W", "X", "Y", "Z">>

\* A name is the sequence of its characters; Text is the string.
Text(chars) == JoinStrs(chars, "")

\* str.upper and str.lower, character by character.
upper(chars) ==
  [i \in DOMAIN chars |->
     IF \E k \in DOMAIN LowerLetters : LowerLetters[k] = chars[i]
     THEN UpperLetters[CHOOSE k \in DOMAIN LowerLetters : LowerLetters[k] = chars[i]]
     ELSE chars[i]]

lower(chars) ==
  [i \in DOMAIN chars |->
     IF \E k \in DOMAIN UpperLetters : UpperLetters[k] = chars[i]
     THEN LowerLetters[CHOOSE k \in DOMAIN UpperLetters : UpperLetters[k] = chars[i]]
     ELSE chars[i]]

\* Function names as queries write them.
FunctionNames ==
  { <<"t", "o", "L", "o", "w", "e", "r">>,
    <<"T", "O", "L", "O", "W", "E", "R">>,
    <<"t", "o", "U", "p", "p", "e", "r">>,
    <<"t", "o", "u", "p", "p", "e", "r">>,
    <<"t", "r", "i", "m">>,
    <<"T", "R", "I", "M">>,
    <<"s", "i", "z", "e">>,
    <<"S", "i", "z", "e">>,
    <<"s", "o", "m", "e", "C", "u", "s", "t", "o", "m", "F", "n">>,
    <<"a", "b", "s">> }

\* The SQL name looked up under the name exactly as written.
sql_function_name_as_written(name) ==
  CASE Text(name) = "toLower" -> "LOWER"
    [] Text(name) = "toUpper" -> "UPPER"
    [] Text(name) = "trim" -> "TRIM"
    [] Text(name) = "size" -> "LENGTH"
    [] OTHER -> Text(upper(name))

\* The SQL name of a Cypher function: the four string functions are looked
\* up under the lower-cased name, any other name is upper-cased.
sql_function_name(name) ==
  CASE Text(lower(name)) = "tolower" -> "LOWER"
    [] Text(lower(name)) = "toupper" -> "UPPER"
    [] Text(lower(name)) = "trim" -> "TRIM"
    [] Text(lower(name)) = "size" -> "LENGTH"
    [] OTHER -> Text(upper(name))

FnUse(name, clause, pos) == [name |-> name, clause |-> clause, pos |-> pos]

\* fn(n.key): the SQL function applied to the lowered property reference.
FunctionCall(name, join) == <<sql_function_name(name) \o "(", join \o ".val", ")">>

\* WHERE and RETURN follow the MATCH clause.
CanLowerFn ==
  /\ tstate = "building"
  /\ from_clauses # <<>>
  /\ Len(functions) < MaxFns

\* WHERE fn(n.name) = value
translate_where_function ==
  /\ CanLowerFn
  /\ \E name \in FunctionNames :
       LET join == property_alias(join_clauses, "name")
       IN  /\ where_conditions' =
                Append(where_conditions,
                       Clause(FunctionCall(name, join) \o <<" = ", Placeholder>>,
                              <<"aspirin">>))
           /\ functions' =
                Append(functions, FnUse(name, "WHERE", Len(where_conditions) + 1))
           /\ parameters' =
                add_parameter(with_property_key(parameters, join_clauses, join, "name"),
                              "aspirin")
           /\ join_clauses' = with_property_join(join_clauses, join, "name")
           /\ property_refs' =
                Append(property_refs,
                       PropUse("WHERE", Len(where_conditions) + 1, "name", join))
  /\ UNCHANGED <<select_items, from_clauses, order_by_items, tstate, sql_out, page>>
  /\ UNCHANGED nonexpr

\* RETURN fn(n.name)
translate_return_function ==
  /\ CanLowerFn
  /\ \E name \in FunctionNames :
       LET join == property_alias(join_clauses, "name")
       IN  /\ select_items' = Append(select_items, Clause(FunctionCall(name, join), <<>>))
           /\ functions' = Append(functions, FnUse(name, "RETURN", Len(select_items) + 1))
           /\ parameters' = with_property_key(parameters, join_clauses, join, "name")
           /\ join_clauses' = with_property_join(join_clauses, join, "name")
           /\ property_refs' =
                Append(property_refs,
                       PropUse("RETURN", Len(select_items) + 1, "name", join))
  /\ UNCHANGED <<from_clauses, where_conditions, order_by_items, tstate, sql_out, page>>
  /\ UNCHANGED nonexpr

\* translate_to_sql returning for a query without SKIP and LIMIT.
translate_function_query ==
  /\ tstate = "building"
  /\ select_items # <<>>
  /\ functions # <<>>
  /\ sql_out' = build_sql(FALSE, PyNone, PyNone)
  /\ tstate' = "built"
  /\ UNCHANGED <<property_refs, select_items, from_clauses, join_clauses, where_conditions,
                 order_by_items, parameters, page, functions>>
  /\ UNCHANGED nonexpr

(***************************************************************************)
(* bulk_insert_nodes (scripts/migrations/migrate_to_nodepk.py)             *)
(***************************************************************************)
\* The batch size of the function, 1000, scaled to the lists of the model.
batch_size == 2

\* The lists of ids the function is called with.
NodeIdLists == UNION { [1..n -> Ids] : n \in 0..MaxNodeIds }

\* bulk_insert_nodes is called: the connection has no open work.
bulk_insert_nodes ==
  /\ bulk_pc = "idle"
  /\ bulk_pc' = IF node_ids = <<>> THEN "done" ELSE "loop"
  /\ position' = 0
  /\ inserted_count' = 0
  /\ UNCHANGED <<node_ids, nodes_rows, nodes_committed, nodes_before>>
  /\ UNCHANGED nonbulk

\* The commit a counted insert is followed by: every batch_size-th id.
CommitDue(i) == (i + 1) % batch_size = 0

\* What rollback leaves of the rows the connection sees.
RolledBack(rows, committed) == committed

\* One pass of the loop whose INSERT is accepted: the row is added and
\* counted, and committed when the batch is full.
bulk_insert_ok ==
  /\ bulk_pc = "loop"
  /\ position < Len(node_ids)
  /\ node_ids[position + 1] \notin nodes_rows
  /\ nodes_rows' = nodes_rows \cup {node_ids[position + 1]}
  /\ inserted_count' = inserted_count + 1
  /\ nodes_committed' =
       IF CommitDue(position) THEN nodes_rows \cup {node_ids[position + 1]}
       ELSE nodes_committed
  /\ position' = position + 1
  /\ UNCHANGED <<node_ids, nodes_before, bulk_pc>>
  /\ UNCHANGED nonbulk

\* One pass whose INSERT is rejected for the primary key: the connection is
\* rolled back and the loop goes on.
bulk_insert_duplicate ==
  /\ bulk_pc = "loop"
  /\ position < Len(node_ids)
  /\ node_ids[position + 1] \in nodes_rows
  /\ nodes_rows' = RolledBack(nodes_rows, nodes_committed)
  /\ position' = position + 1
  /\ UNCHANGED <<node_ids, inserted_count, nodes_committed, nodes_before, bulk_pc>>
  /\ UNCHANGED nonbulk

\* One pass whose INSERT fails for another reason: rollback and re-raise.
bulk_insert_error ==
  /\ bulk_pc = "loop"
  /\ position < Len(node_ids)
  /\ nodes_rows' = RolledBack(nodes_rows, nodes_committed)
  /\ bulk_pc' = "raised"
  /\ UNCHANGED <<node_ids, position, inserted_count, nodes_committed, nodes_before>>
  /\ UNCHANGED nonbulk

\* The commit after the loop.
bulk_final_commit ==
  /\ bulk_pc = "loop"
  /\ position = Len(node_ids)
  /\ nodes_committed' = nodes_rows
  /\ bulk_pc' = "done"
  /\ UNCHANGED <<node_ids, position, inserted_count, nodes_rows, nodes_before>>
  /\ UNCHANGED nonbulk

\* The commit after the loop failing: the bare except rolls back.
bulk_final_commit_fails ==
  /\ bulk_pc = "loop"
  /\ position = Len(node_ids)
  /\ nodes_rows' = RolledBack(nodes_rows, nodes_committed)
  /\ bulk_pc' = "done"
  /\ UNCHANGED <<node_ids, position, inserted_count, nodes_committed, nodes_before>>
  /\ UNCHANGED nonbulk

(***************************************************************************)
(* CoreQuery.nodes (api/gql/core/resolvers.py)                             *)
(***************************************************************************)
\* Variables outside the nodes resolver.
nonnodes == <<dbvars, ctxvars, procvars, exprvars, bulkvars, gqlvars, isovars, upvars>>

\* Python truth of the labels and where arguments.
Truthy(v) == v.t = "list" /\ v.l # <<>>

Given(w) == w # PyNone

\* direction = "DESC" if order_direction not in ("ASC", "DESC") else it.
Direction(order_direction) ==
  IF order_direction \notin {"ASC", "DESC"} THEN "DESC" ELSE order_direction

OrdersByProperty(order_by) == order_by \notin {NONE, "created_at", "id"}

\* order_join: empty, or the LEFT JOIN whose placeholder is for order_by.
order_join(order_by) ==
  IF OrdersByProperty(order_by)
  THEN << Clause(<<"LEFT JOIN rdf_props order_p ON order_p.s = n.node_id AND order_p.key = ",
                   Placeholder>>,
                 <<PyStr(order_by)>>) >>
  ELSE <<>>

order_params_prefix(order_by) ==
  IF OrdersByProperty(order_by) THEN <<PyStr(order_by)>> ELSE <<>>

order_clause(order_by, order_direction) ==
  IF order_by \in {NONE, "created_at"}
  THEN Clause(<<"ORDER BY n.created_at ", Direction(order_direction)>>, <<>>)
  ELSE IF order_by = "id"
  THEN Clause(<<"ORDER BY n.node_id ", Direction(order_direction)>>, <<>>)
  ELSE Clause(<<"ORDER BY order_p.val ", Direction(order_direction)>>, <<>>)

\* op = (where.operator or "equals").lower()
FilterOperator(w) == IF w.operator = <<>> THEN "equals" ELSE Text(lower(w.operator))

\* _where_condition: one placeholder, for where.value.
where_condition(w) ==
  Clause(
    CASE FilterOperator(w) = "contains" -> <<"p.val LIKE '%' || ", Placeholder, " || '%'">>
      [] FilterOperator(w) = "starts_with" -> <<"p.val LIKE ", Placeholder, " || '%'">>
      [] FilterOperator(w) = "ends_with" -> <<"p.val LIKE '%' || ", Placeholder>>
      [] FilterOperator(w) = "gt" ->
           <<"CAST(p.val AS DOUBLE) > CAST(", Placeholder, " AS DOUBLE)">>
      [] FilterOperator(w) = "lt" ->
           <<"CAST(p.val AS DOUBLE) < CAST(", Placeholder, " AS DOUBLE)">>
      [] FilterOperator(w) = "gte" ->
           <<"CAST(p.val AS DOUBLE) >= CAST(", Placeholder, " AS DOUBLE)">>
      [] FilterOperator(w) = "lte" ->
           <<"CAST(p.val AS DOUBLE) <= CAST(", Placeholder, " AS DOUBLE)">>
      [] OTHER -> <<"p.val = ", Placeholder>>,
    <<PyStr(w.value)>>)

PropsJoin(w) ==
  Clause(<<"JOIN rdf_props p ON p.s = n.node_id AND p.key = ", Placeholder>>,
         <<PyStr(w.key)>>)

LabelIn(prefix, labels) ==
  Clause(<<prefix \o " l.label IN (">>
           \o JoinSeq([i \in DOMAIN labels |-> <<Placeholder>>], ",") \o <<")">>,
         [i \in DOMAIN labels |-> PyStr(labels[i])])

LimitOffset(limit, offset) ==
  Clause(<<"LIMIT ", Placeholder, " OFFSET ", Placeholder>>, <<PyInt(limit), PyInt(offset)>>)

\* The query text of the four branches, piece by piece in text order; each
\* piece carries the values its placeholders stand for.
NodesQuery(labels, w, limit, offset, order_by, order_direction) ==
  IF Truthy(labels) /\ Given(w)
  THEN << Clause(<<"SELECT DISTINCT n.node_id FROM nodes n JOIN rdf_labels l ON l.s = n.node_id">>,
                 <<>>),
          PropsJoin(w) >>
         \o order_join(order_by)
         \o << LabelIn("WHERE", labels.l),
                Clause(<<"AND ">> \o where_condition(w).text, where_condition(w).binds),
                order_clause(order_by, order_direction),
                LimitOffset(limit, offset) >>
  ELSE IF Truthy(labels)
  THEN << Clause(<<"SELECT DISTINCT n.node_id FROM nodes n JOIN rdf_labels l ON l.s = n.node_id">>,
                 <<>>) >>
         \o order_join(order_by)
         \o << LabelIn("WHERE", labels.l),
                order_clause(order_by, order_direction),
                LimitOffset(limit, offset) >>
  ELSE IF Given(w)
  THEN << Clause(<<"SELECT DISTINCT n.node_id FROM nodes n">>, <<>>),
          PropsJoin(w) >>
         \o order_join(order_by)
         \o << Clause(<<"WHERE ">> \o where_condition(w).text, where_condition(w).binds),
                order_clause(order_by, order_direction),
                LimitOffset(limit, offset) >>
  ELSE << Clause(<<"SELECT n.node_id FROM nodes n">>, <<>>) >>
         \o order_join(order_by)
         \o << order_clause(order_by, order_direction),
                LimitOffset(limit, offset) >>

PyStrs(ss) == [i \in DOMAIN ss |-> PyStr(ss[i])]

\* The params list of the four branches.
NodesParams(labels, w, limit, offset, order_by) ==
  IF Truthy(labels) /\ Given(w)
  THEN order_params_prefix(order_by) \o <<PyStr(w.key)>> \o PyStrs(labels.l)
         \o <<PyStr(w.value), PyInt(limit), PyInt(offset)>>
  ELSE IF Truthy(labels)
  THEN order_params_prefix(order_by) \o PyStrs(labels.l) \o <<PyInt(limit), PyInt(offset)>>
  ELSE IF Given(w)
  THEN order_params_prefix(order_by)
         \o <<PyStr(w.key), PyStr(w.value), PyInt(limit), PyInt(offset)>>
  ELSE order_params_prefix(order_by) \o <<PyInt(limit), PyInt(offset)>>

\* nodes() with a connection: the query is built and handed to the cursor
\* with its params.
nodes ==
  /\ nodes_pc = "idle"
  /\ has_connection
  /\ nodes_query' =
       NodesQuery(arg_labels, arg_where, arg_limit, arg_offset, arg_order_by,
                  arg_order_direction)
  /\ nodes_params' = NodesParams(arg_labels, arg_where, arg_limit, arg_offset, arg_order_by)
  /\ nodes_pc' = "executed"
  /\ UNCHANGED <<arg_labels, arg_where, arg_limit, arg_offset, arg_order_by,
                 arg_order_direction, has_connection>>
  /\ UNCHANGED nonnodes

\* nodes() without a connection in the context returns [] at once.
nodes_no_connection ==
  /\ nodes_pc = "idle"
  /\ ~has_connection
  /\ nodes_pc' = "returned"
  /\ UNCHANGED <<arg_labels, arg_where, arg_limit, arg_offset, arg_order_by,
                 arg_order_direction, has_connection, nodes_query, nodes_params>>
  /\ UNCHANGED nonnodes

\* The ids are read and the nodes loaded and returned.
nodes_return ==
  /\ nodes_pc = "executed"
  /\ nodes_pc' = "returned"
  /\ UNCHANGED <<arg_labels, arg_where, arg_limit, arg_offset, arg_order_by,
                 arg_order_direction, has_connection, nodes_query, nodes_params>>
  /\ UNCHANGED nonnodes

(***************************************************************************)
(* Query.execute_cypher (api/gql/schema.py), the resolver's control flow   *)
(***************************************************************************)
\* Variables outside the GraphQL resolver.
nongql == <<dbvars, ctxvars, procvars, exprvars, bulkvars, nodesvars, isovars, upvars>>

\* Where the try block goes after parse_query: into the except clause when
\* the text does not parse.
AfterParse(query) == IF query = "unparsable" THEN "except" ELSE "translate"

\* A resolver that opens the transaction before it has a program.
AfterTranslateUnchecked(query) == IF query = "read" THEN "read" ELSE "begin"

\* Where it goes after translate_to_sql: into the except clause when the
\* translation fails, else by sql_query.is_transactional.
AfterTranslate(query) ==
  IF query = "untranslatable" THEN "except"
  ELSE IF query = "write" THEN "begin" ELSE "read"

\* translator_params = params if isinstance(params, dict) else None
TranslatorParams(params) == IF params = "dict" THEN "dict" ELSE "none"

\* execute_cypher without a connection: the error object, no cursor.
gql_no_connection ==
  /\ gql_pc = "idle"
  /\ ~gql_connection
  /\ gql_result' = "error"
  /\ gql_pc' = "returned"
  /\ UNCHANGED <<gql_connection, gql_query, gql_params, gql_statements, gql_sent,
                 gql_cursors, gql_closed, gql_translator_params>>
  /\ UNCHANGED nongql

\* cursor = db_connection.cursor()
gql_open_cursor ==
  /\ gql_pc = "idle"
  /\ gql_connection
  /\ gql_cursors' = gql_cursors + 1
  /\ gql_pc' = "parse"
  /\ UNCHANGED <<gql_connection, gql_query, gql_params, gql_statements, gql_sent,
                 gql_closed, gql_translator_params, gql_result>>
  /\ UNCHANGED nongql

\* cypher_ast = parse_query(query)
gql_parse_query ==
  /\ gql_pc = "parse"
  /\ gql_pc' = AfterParse(gql_query)
  /\ UNCHANGED <<gql_connection, gql_query, gql_params, gql_statements, gql_sent,
                 gql_cursors, gql_closed, gql_translator_params, gql_result>>
  /\ UNCHANGED nongql

\* sql_query = translate_to_sql(cypher_ast, params=translator_params)
gql_translate_to_sql ==
  /\ gql_pc = "translate"
  /\ gql_translator_params' = TranslatorParams(gql_params)
  /\ gql_pc' = AfterTranslate(gql_query)
  /\ UNCHANGED <<gql_connection, gql_query, gql_params, gql_statements, gql_sent,
                 gql_cursors, gql_closed, gql_result>>
  /\ UNCHANGED nongql

\* cursor.execute("START TRANSACTION"), outside the inner try.
gql_start_transaction ==
  /\ gql_pc = "begin"
  /\ gql_sent' = Append(gql_sent, "START TRANSACTION")
  /\ \E ok \in BOOLEAN : gql_pc' = IF ok THEN "statements" ELSE "except"
  /\ UNCHANGED <<gql_connection, gql_query, gql_params, gql_statements, gql_cursors,
                 gql_closed, gql_translator_params, gql_result>>
  /\ UNCHANGED nongql

\* The statements of the program sent so far.
StatementsSent == Cardinality({ i \in DOMAIN gql_sent : gql_sent[i] = "statement" })

\* cursor.execute(statement, params_for_stmt) inside the inner try.
gql_execute_statement ==
  /\ gql_pc = "statements"
  /\ StatementsSent < gql_statements
  /\ gql_sent' = Append(gql_sent, "statement")
  /\ \E ok \in BOOLEAN : gql_pc' = IF ok THEN "statements" ELSE "rollback"
  /\ UNCHANGED <<gql_connection, gql_query, gql_params, gql_statements, gql_cursors,
                 gql_closed, gql_translator_params, gql_result>>
  /\ UNCHANGED nongql

\* cursor.execute("COMMIT") after the last statement.
gql_commit ==
  /\ gql_pc = "statements"
  /\ StatementsSent = gql_statements
  /\ gql_sent' = Append(gql_sent, "COMMIT")
  /\ \E ok \in BOOLEAN : gql_pc' = IF ok THEN "results" ELSE "rollback"
  /\ UNCHANGED <<gql_connection, gql_query, gql_params, gql_statements, gql_cursors,
                 gql_closed, gql_translator_params, gql_result>>
  /\ UNCHANGED nongql

\* except Exception: cursor.execute("ROLLBACK"); raise. Whether or not the
\* ROLLBACK itself raises, an exception reaches the outer except.
gql_rollback ==
  /\ gql_pc = "rollback"
  /\ gql_sent' = Append(gql_sent, "ROLLBACK")
  /\ gql_pc' = "except"
  /\ UNCHANGED <<gql_connection, gql_query, gql_params, gql_statements, gql_cursors,
                 gql_closed, gql_translator_params, gql_result>>
  /\ UNCHANGED nongql

\* The non-transactional branch: one cursor.execute of the whole text.
gql_execute_read ==
  /\ gql_pc = "read"
  /\ gql_sent' = Append(gql_sent, "statement")
  /\ \E ok \in BOOLEAN : gql_pc' = IF ok THEN "results" ELSE "except"
  /\ UNCHANGED <<gql_connection, gql_query, gql_params, gql_statements, gql_cursors,
                 gql_closed, gql_translator_params, gql_result>>
  /\ UNCHANGED nongql

\* return cast(JSON, results)
gql_return_results ==
  /\ gql_pc = "results"
  /\ gql_result' = "rows"
  /\ gql_pc' = "finally"
  /\ UNCHANGED <<gql_connection, gql_query, gql_params, gql_statements, gql_sent,
                 gql_cursors, gql_closed, gql_translator_params>>
  /\ UNCHANGED nongql

\* except Exception as exc: return {"error": str(exc)}
gql_return_error ==
  /\ gql_pc = "except"
  /\ gql_result' = "error"
  /\ gql_pc' = "finally"
  /\ UNCHANGED <<gql_connection, gql_query, gql_params, gql_statements, gql_sent,
                 gql_cursors, gql_closed, gql_translator_params>>
  /\ UNCHANGED nongql

\* finally: cursor.close(), an exception from it swallowed.
gql_close_cursor ==
  /\ gql_pc = "finally"
  /\ gql_closed' = gql_closed + 1
  /\ gql_pc' = "returned"
  /\ UNCHANGED <<gql_connection, gql_query, gql_params, gql_statements, gql_sent,
                 gql_cursors, gql_translator_params, gql_result>>
  /\ UNCHANGED nongql

(***************************************************************************)
(* Two translation contexts side by side                                   *)
(***************************************************************************)
\* Variables outside the pair of invocations.
noniso == <<dbvars, ctxvars, procvars, exprvars, bulkvars, nodesvars, gqlvars, upvars>>

Invocations == {1, 2}

\* The mutable fields of a TranslationContext, in declaration order.
Fields == <<"variable_aliases", "select_items", "from_clauses",
            "where_conditions", "parameters">>

FieldIndex(f) == CHOOSE k \in DOMAIN Fields : Fields[k] = f

\* A field whose default is one object of the class, the same for every
\* instance.
default_shared(instance, f) == <<0, f>>

\* field(default_factory=...): the factory runs at each construction, so the
\* field of each instance refers to an object of its own.
default_factory(instance, f) == <<instance, f>>

\* The object a field of invocation i's context refers to.
Obj(i, f) == iso_fields[i][FieldIndex(f)]

\* An entry of a buffer with the invocation whose call put it there.
Entered(value, by) == <<value, by>>

Values(entries) == [k \in DOMAIN entries |-> entries[k][1]]

\* The texts of a clause list, each as one piece of SQL.
Pieces(entries) == [k \in DOMAIN entries |-> <<entries[k][1]>>]

\* The variable_aliases dict as a lookup table.
AliasTable(entries) ==
  [v \in QueryVars |->
     IF \E k \in DOMAIN entries : entries[k][1][1] = v
     THEN entries[CHOOSE k \in DOMAIN entries : entries[k][1][1] = v][1][2]
     ELSE ""]

\* The clauses a query is made of: MATCH (v), WHERE v.p = value, RETURN v.
IsoClauses ==
  { <<kind, v>> : kind \in {"match", "where", "return"}, v \in {"m", "x"} }

IsoQueries == UNION { [1..n -> IsoClauses] : n \in 1..MaxClauses }

\* The heap after invocation i has translated one clause through the
\* methods of its context.
TranslateClause(heap, i, counter, clause) ==
  LET reg == register_variable(AliasTable(heap[Obj(i, "variable_aliases")]),
                               counter, clause[2])
      h1 == IF reg.fresh
            THEN [heap EXCEPT ![Obj(i, "variable_aliases")] =
                    Append(@, Entered(<<clause[2], reg.alias>>, i))]
            ELSE heap
  IN  IF clause[1] = "match"
      THEN [h1 EXCEPT ![Obj(i, "from_clauses")] =
              Append(@, Entered("nodes " \o reg.alias, i))]
      ELSE IF clause[1] = "where"
      THEN [h1 EXCEPT ![Obj(i, "where_conditions")] =
              Append(@, Entered(reg.alias \o ".val = ?", i)),
            ![Obj(i, "parameters")] =
              add_parameter(@, Entered("value of " \o clause[2], i))]
      ELSE [h1 EXCEPT ![Obj(i, "select_items")] =
              Append(@, Entered(reg.alias \o ".node_id", i))]

\* SQLQuery(sql=context.build_sql(), parameters=context.parameters) of
\* invocation i.
IsoSQLQuery(i) ==
  << JoinSeq(
       << <<"SELECT ">> \o JoinSeq(Pieces(iso_heap[Obj(i, "select_items")]), ", ") >>
       \o (IF iso_heap[Obj(i, "from_clauses")] # <<>>
           THEN << <<"FROM ">> \o JoinSeq(Pieces(iso_heap[Obj(i, "from_clauses")]), ", ") >>
           ELSE <<>>)
       \o (IF iso_heap[Obj(i, "where_conditions")] # <<>>
           THEN << <<"WHERE ">>
                   \o JoinSeq(Pieces(iso_heap[Obj(i, "where_conditions")]), " AND ") >>
           ELSE <<>>),
       "\n"),
     Values(iso_heap[Obj(i, "parameters")]) >>

\* context = TranslationContext(): every field gets its default.
iso_new_context ==
  /\ \E i \in Invocations :
       /\ iso_fields[i] = <<>>
       /\ iso_fields' = [iso_fields EXCEPT ![i] =
            [k \in DOMAIN Fields |-> default_factory(i, Fields[k])]]
       /\ iso_heap' =
            [o \in DOMAIN iso_heap \cup { default_factory(i, Fields[k]) : k \in DOMAIN Fields }
               |-> IF o \in DOMAIN iso_heap THEN iso_heap[o] ELSE <<>>]
       /\ iso_counter' = [iso_counter EXCEPT ![i] = 0]
  /\ UNCHANGED <<iso_ast, iso_pos, iso_result>>
  /\ UNCHANGED noniso

\* The next clause of the query, translated by one of the invocations.
iso_translate_clause ==
  /\ \E i \in Invocations :
       /\ iso_fields[i] # <<>>
       /\ iso_pos[i] < Len(iso_ast)
       /\ iso_heap' = TranslateClause(iso_heap, i, iso_counter[i], iso_ast[iso_pos[i] + 1])
       /\ iso_counter' = [iso_counter EXCEPT ![i] =
            register_variable(AliasTable(iso_heap[Obj(i, "variable_aliases")]),
                              iso_counter[i], iso_ast[iso_pos[i] + 1][2]).counter]
       /\ iso_pos' = [iso_pos EXCEPT ![i] = @ + 1]
  /\ UNCHANGED <<iso_ast, iso_fields, iso_result>>
  /\ UNCHANGED noniso

\* An invocation assembles and returns its SQLQuery.
iso_return ==
  /\ \E i \in Invocations :
       /\ iso_fields[i] # <<>>
       /\ iso_pos[i] = Len(iso_ast)
       /\ iso_result[i] = <<>>
       /\ iso_result' = [iso_result EXCEPT ![i] = IsoSQLQuery(i)]
  /\ UNCHANGED <<iso_ast, iso_heap, iso_fields, iso_counter, iso_pos>>
  /\ UNCHANGED noniso

(***************************************************************************)
(* Two executions of Mutation.update_protein on one protein                *)
(***************************************************************************)
\* Variables outside the two executions.
nonup == <<dbvars, ctxvars, procvars, exprvars, bulkvars, nodesvars, gqlvars, isovars>>

Executions == {1, 2}

\* The keys update_protein can write, in the order of its updates list.
UpdateKeys == <<"name", "function">>

\* The value an execution writes, its own so that its writes can be told.
ValueOf(e) == "v" \o ToStr(e)

\* A row of rdf_props of the protein: key, val and the execution whose
\* INSERT made it (0 for a row that was there before).
PropRow(key, val, by) == <<key, val, by>>

\* An uncommitted write: "update" or "insert", the key and the value.
Write(op, key, val) == <<op, key, val>>

\* Whether a transaction other than e's holds an uncommitted write on the
\* key; a statement of e on that key waits for it to end.
LockedByOther(pending, e, key) ==
  \E o \in DOMAIN pending : o # e /\ \E n \in DOMAIN pending[o] : pending[o][n][2] = key

\* The rows after the writes of a transaction are applied, in order.
RECURSIVE ApplyWrites(_, _, _)
ApplyWrites(rows, writes, e) ==
  IF writes = <<>> THEN rows
  ELSE ApplyWrites(
         IF Head(writes)[1] = "insert"
         THEN rows \cup { PropRow(Head(writes)[2], Head(writes)[3], e) }
         ELSE { IF r[1] = Head(writes)[2] THEN PropRow(r[1], Head(writes)[3], r[3]) ELSE r
                : r \in rows },
         Tail(writes), e)

\* What execution e reads: the committed rows and its own writes.
VisibleTo(e) == ApplyWrites(up_rows, up_pending[e], e)

\* A table without the primary key.
pk_props_absent(rows, key) == FALSE

\* CONSTRAINT pk_props PRIMARY KEY (s, key): an INSERT is rejected when a
\* row of the key is there.
pk_props(rows, key) == \E r \in rows : r[1] = key

\* The key the execution is at.
UpKey(e) == UpdateKeys[up_updates[e][up_idx[e]]]

\* SELECT COUNT(*) FROM nodes WHERE node_id = ?: the protein exists, the
\* resolver builds its updates list and enters the loop.
update_protein ==
  /\ \E e \in Executions :
       /\ up_pc[e] = "idle"
       /\ up_pc' = [up_pc EXCEPT ![e] = "loop"]
  /\ UNCHANGED <<up_rows, up_pending, up_updates, up_idx, up_rowcount, up_rejected>>
  /\ UNCHANGED nonup

\* UPDATE rdf_props SET val = ? WHERE s = ? AND key = ?, then the test of
\* cursor.rowcount.
up_update ==
  /\ \E e \in Executions :
       /\ up_pc[e] = "loop"
       /\ up_idx[e] <= Len(up_updates[e])
       /\ ~LockedByOther(up_pending, e, UpKey(e))
       /\ LET n == Cardinality({ r \in VisibleTo(e) : r[1] = UpKey(e) })
          IN  /\ up_rowcount' = [up_rowcount EXCEPT ![e] = n]
              /\ up_pending' = [up_pending EXCEPT ![e] =
                   IF n > 0 THEN Append(@, Write("update", UpKey(e), ValueOf(e))) ELSE @]
              /\ up_pc' = [up_pc EXCEPT ![e] = IF n = 0 THEN "insert" ELSE "loop"]
              /\ up_idx' = [up_idx EXCEPT ![e] = IF n = 0 THEN @ ELSE @ + 1]
  /\ UNCHANGED <<up_rows, up_updates, up_rejected>>
  /\ UNCHANGED nonup

\* INSERT INTO rdf_props (s, key, val) VALUES (?, ?, ?), accepted.
up_insert ==
  /\ \E e \in Executions :
       /\ up_pc[e] = "insert"
       /\ ~LockedByOther(up_pending, e, UpKey(e))
       /\ ~pk_props(VisibleTo(e), UpKey(e))
       /\ up_pending' = [up_pending EXCEPT ![e] =
            Append(@, Write("insert", UpKey(e), ValueOf(e)))]
       /\ up_idx' = [up_idx EXCEPT ![e] = @ + 1]
       /\ up_pc' = [up_pc EXCEPT ![e] = "loop"]
  /\ UNCHANGED <<up_rows, up_updates, up_rowcount, up_rejected>>
  /\ UNCHANGED nonup

\* The INSERT rejected by the primary key: the exception reaches the except
\* clause.
up_insert_rejected ==
  /\ \E e \in Executions :
       /\ up_pc[e] = "insert"
       /\ ~LockedByOther(up_pending, e, UpKey(e))
       /\ pk_props(VisibleTo(e), UpKey(e))
       /\ up_rejected' = [up_rejected EXCEPT ![e] = TRUE]
       /\ up_pc' = [up_pc EXCEPT ![e] = "except"]
  /\ UNCHANGED <<up_rows, up_pending, up_updates, up_idx, up_rowcount>>
  /\ UNCHANGED nonup

\* The INSERT given up while the other transaction holds the key (a lock
\* timeout): an exception as well.
up_insert_timeout ==
  /\ \E e \in Executions :
       /\ up_pc[e] = "insert"
       /\ LockedByOther(up_pending, e, UpKey(e))
       /\ up_pc' = [up_pc EXCEPT ![e] = "except"]
  /\ UNCHANGED <<up_rows, up_pending, up_updates, up_idx, up_rowcount, up_rejected>>
  /\ UNCHANGED nonup

\* db_connection.commit() after the loop, and the return of the protein.
up_commit ==
  /\ \E e \in Executions :
       /\ up_pc[e] = "loop"
       /\ up_idx[e] > Len(up_updates[e])
       /\ up_rows' = ApplyWrites(up_rows, up_pending[e], e)
       /\ up_pending' = [up_pending EXCEPT ![e] = <<>>]
       /\ up_pc' = [up_pc EXCEPT ![e] = "returned"]
  /\ UNCHANGED <<up_updates, up_idx, up_rowcount, up_rejected>>
  /\ UNCHANGED nonup

\* except Exception as e: db_connection.rollback(); raise Exception(...)
up_rollback ==
  /\ \E e \in Executions :
       /\ up_pc[e] = "except"
       /\ up_pending' = [up_pending EXCEPT ![e] = <<>>]
       /\ up_pc' = [up_pc EXCEPT ![e] = "raised"]
  /\ UNCHANGED <<up_rows, up_updates, up_idx, up_rowcount, up_rejected>>
  /\ UNCHANGED nonup

(***************************************************************************)
(* Specifications                                                          *)
(***************************************************************************)
Init == DbInit /\ CtxIdle /\ ProcIdle /\ host_embedding = FALSE /\ functions = <<>> /\ AuxIdle

Next ==
  \/ execute_cypher
  \/ create_node
  \/ resolver_call
  \/ Begin
  \/ StmtOk
  \/ StmtFail
  \/ StmtFault
  \/ StmtSkip
  \/ RaiseStep
  \/ Commit
  \/ Rollback
  \/ ExecRead
  \/ Finish

Spec == Init /\ [][Next]_vars

InitCtx == CtxIdle /\ DbIdle /\ ProcIdle /\ host_embedding = FALSE /\ functions = <<>> /\ AuxIdle

NextCtx ==
  \/ translate_node_pattern
  \/ translate_where_clause
  \/ translate_return_property
  \/ translate_return_variable
  \/ translate_order_by
  \/ translate_build
  \/ translate_parameter_error

SpecCtx == InitCtx /\ [][NextCtx]_vars

InitProc ==
  CtxIdle /\ DbIdle /\ ProcIdle /\ host_embedding \in BOOLEAN /\ functions = <<>> /\ AuxIdle

NextProc ==
  \/ engine_execute_cypher
  \/ translate_procedure_call
  \/ translate_procedure_call_raises
  \/ translate_match_relationship
  \/ translate_match_node
  \/ translate_return_items
  \/ translate_return_unbound
  \/ translate_where_variable
  \/ translate_write_variable
  \/ translate_reference_unbound
  \/ translate_finish
  \/ translate_finish_raises
  \/ probe_embedding_support
  \/ engine_translation_failed
  \/ engine_unsupported
  \/ engine_run_sql
  \/ engine_return

SpecProc == InitProc /\ [][NextProc]_vars

InitExpr == CtxIdle /\ DbIdle /\ ProcIdle /\ host_embedding = FALSE /\ functions = <<>> /\ AuxIdle

NextExpr ==
  \/ translate_node_pattern
  \/ translate_where_function
  \/ translate_return_function
  \/ translate_function_query

SpecExpr == InitExpr /\ [][NextExpr]_vars

\* A call of bulk_insert_nodes with any list, on a nodes table holding any
\* of the ids.
InitBulk ==
  /\ CtxIdle /\ DbIdle /\ ProcIdle /\ host_embedding = FALSE /\ functions = <<>>
  /\ node_ids \in NodeIdLists
  /\ nodes_before \in SUBSET Ids
  /\ nodes_rows = nodes_before
  /\ nodes_committed = nodes_before
  /\ position = 0
  /\ inserted_count = 0
  /\ bulk_pc = "idle"
  /\ NodesIdle /\ GqlIdle /\ IsoIdle /\ UpIdle

NextBulk ==
  \/ bulk_insert_nodes
  \/ bulk_insert_ok
  \/ bulk_insert_duplicate
  \/ bulk_insert_error
  \/ bulk_final_commit
  \/ bulk_final_commit_fails

SpecBulk == InitBulk /\ [][NextBulk]_vars

\* The arguments nodes() is called with.
LabelArgs == { PyNone, PyList(<<>>), PyList(<<"Drug">>), PyList(<<"Drug", "Gene">>) }

FilterOperators ==
  { <<>>, <<"g", "t">>, <<"G", "T">>, <<"l", "t", "e">>,
    <<"c", "o", "n", "t", "a", "i", "n", "s">>, <<"l", "i", "k", "e">> }

WhereArgs ==
  {PyNone} \cup { PropertyFilter(k, "approved", op) :
                    k \in {"status", "name"}, op \in FilterOperators }

OrderByArgs == {NONE, "created_at", "id", "name", "status"}

OrderDirectionArgs == {NONE, "ASC", "DESC", "asc", "ASC; DROP TABLE nodes"}

InitNodes ==
  /\ CtxIdle /\ DbIdle /\ ProcIdle /\ host_embedding = FALSE /\ functions = <<>>
  /\ BulkIdle /\ GqlIdle /\ IsoIdle /\ UpIdle
  /\ arg_labels \in LabelArgs
  /\ arg_where \in WhereArgs
  /\ arg_limit \in {1, 100}
  /\ arg_offset \in {0, 20}
  /\ arg_order_by \in OrderByArgs
  /\ arg_order_direction \in OrderDirectionArgs
  /\ has_connection \in BOOLEAN
  /\ nodes_query = <<>>
  /\ nodes_params = <<>>
  /\ nodes_pc = "idle"

NextNodes ==
  \/ nodes
  \/ nodes_no_connection
  \/ nodes_return

SpecNodes == InitNodes /\ [][NextNodes]_vars

\* One call of the execute_cypher field with any kind of query and params.
InitGql ==
  /\ CtxIdle /\ DbIdle /\ ProcIdle /\ host_embedding = FALSE /\ functions = <<>>
  /\ BulkIdle /\ NodesIdle /\ IsoIdle /\ UpIdle
  /\ gql_connection \in BOOLEAN
  /\ gql_query \in {"unparsable", "untranslatable", "read", "write"}
  /\ gql_params \in {"none", "dict", "list"}
  /\ gql_statements \in 1..MaxStatements
  /\ gql_query # "write" => gql_statements = 1
  /\ gql_pc = "idle"
  /\ gql_sent = <<>>
  /\ gql_cursors = 0
  /\ gql_closed = 0
  /\ gql_translator_params = "none"
  /\ gql_result = "none"

NextGql ==
  \/ gql_no_connection
  \/ gql_open_cursor
  \/ gql_parse_query
  \/ gql_translate_to_sql
  \/ gql_start_transaction
  \/ gql_execute_statement
  \/ gql_commit
  \/ gql_rollback
  \/ gql_execute_read
  \/ gql_return_results
  \/ gql_return_error
  \/ gql_close_cursor

SpecGql == InitGql /\ [][NextGql]_vars

\* Two calls of the translator on the same query.
InitIso ==
  /\ CtxIdle /\ DbIdle /\ ProcIdle /\ host_embedding = FALSE /\ functions = <<>>
  /\ BulkIdle /\ NodesIdle /\ GqlIdle /\ UpIdle
  /\ iso_ast \in IsoQueries
  /\ iso_heap = <<>>
  /\ iso_fields = [i \in Invocations |-> <<>>]
  /\ iso_counter = [i \in Invocations |-> 0]
  /\ iso_pos = [i \in Invocations |-> 0]
  /\ iso_result = [i \in Invocations |-> <<>>]

NextIso ==
  \/ iso_new_context
  \/ iso_translate_clause
  \/ iso_return

SpecIso == InitIso /\ [][NextIso]_vars

\* The updates lists an input can give: the keys whose field is not None,
\* in the order of UpdateKeys.
UpdateLists == { <<1>>, <<2>>, <<1, 2>> }

\* Two executions of update_protein on a protein that has some of the
\* properties already.
InitUpsert ==
  /\ CtxIdle /\ DbIdle /\ ProcIdle /\ host_embedding = FALSE /\ functions = <<>>
  /\ BulkIdle /\ NodesIdle /\ GqlIdle /\ IsoIdle
  /\ \E present \in SUBSET Range(UpdateKeys) :
       up_rows = { PropRow(k, "old", 0) : k \in present }
  /\ up_pending = [e \in Executions |-> <<>>]
  /\ up_updates \in [Executions -> UpdateLists]
  /\ up_idx = [e \in Executions |-> 1]
  /\ up_rowcount = [e \in Executions |-> 0]
  /\ up_rejected = [e \in Executions |-> FALSE]
  /\ up_pc = [e \in Executions |-> "idle"]

NextUpsert ==
  \/ update_protein
  \/ up_update
  \/ up_insert
  \/ up_insert_rejected
  \/ up_insert_timeout
  \/ up_commit
  \/ up_rollback

SpecUpsert == InitUpsert /\ [][NextUpsert]_vars

TypeOK ==
  /\ RefInt(db) /\ KeysOk(db)
  /\ pc \in {"idle", "begin", "run", "read", "failed", "done"}

(***************************************************************************)
(* Properties of the transactional executors and the write programs        *)
(***************************************************************************)
LogSqls == [i \in DOMAIN log |-> log[i].sql]

\* The program handed to the executor, statement by statement.
Emitted ==
  IF req.executor \in CypherExecutors
  THEN [i \in DOMAIN prog.sql.l |-> Issued(prog.sql.l[i], prog.parameters[i])]
  ELSE [i \in DOMAIN steps |-> Issued(steps[i].sql, PyList(steps[i].p))]

TxnRun ==
  \/ req.executor \in CypherExecutors /\ prog.is_transactional
  \/ req.executor = "engine"

\* Program statements sent so far (the log without START and the closing
\* COMMIT or ROLLBACK).
SentCount == Len(log) - 1 - (IF pc = "done" THEN 1 ELSE 0)

\* C1: a transactional write program run by execute_cypher (GraphQL or the
\* test fixture) or by create_node runs its statements in emitted order
\* after START TRANSACTION; when a statement fails ROLLBACK is issued, no
\* COMMIT is issued, and every table holds the rows it held before the
\* program started; when none fails all statements are sent and COMMIT
\* closes the program.
C1_AtomicWrites ==
  (TxnRun /\ pc \in {"run", "failed", "done"}) =>
    /\ log[1].sql = SQL_START
    /\ SentCount <= Len(Emitted)
    /\ \A i \in 1..SentCount : log[i + 1] = Emitted[i]
    /\ (pc = "done" /\ failure = "none") =>
         /\ log[Len(log)].sql = SQL_COMMIT
         /\ SentCount = Len(Emitted)
    /\ (pc = "done" /\ failure # "none") =>
         /\ log[Len(log)].sql = SQL_ROLLBACK
         /\ SQL_COMMIT \notin Range(LogSqls)
         /\ db = pre
    /\ (pc # "done") => SQL_COMMIT \notin Range(LogSqls) /\ SQL_ROLLBACK \notin Range(LogSqls)

\* A CREATE whose node insert took effect and whose later statement failed
\* has been rolled back.
C1_Witness ==
  /\ TxnRun /\ pc = "done" /\ failure # "none"
  /\ req.op = "CREATE" /\ req.id \notin pre.nodes
  /\ Len(log) >= 4

DeleteOrder ==
  << SQL_DELETE_EMB, SQL_DELETE_EDGES, SQL_DELETE_PROPS, SQL_DELETE_LABELS,
     SQL_DELETE_NODE >>

IsPrefix(a, b) == Len(a) <= Len(b) /\ \A i \in DOMAIN a : a[i] = b[i]

\* The DELETE statements sent for this request, in the order sent.
SentDeletes == SelectSeq(LogSqls, LAMBDA x : x \in Range(DeleteOrder))

\* C2: deleting a node (Cypher DELETE or DETACH DELETE, which give the same
\* program, and delete_protein) emits the five DELETE statements in the
\* order kg_NodeEmbeddings, rdf_edges (s = ? OR o_id = ?), rdf_props,
\* rdf_labels, nodes; what is sent is always a prefix of that order.
C2_DeleteOrder ==
  (/\ req.op \in {"DELETE", "delete_protein"}
   /\ (pc \in {"begin", "run", "failed"} \/ (pc = "done" /\ Len(log) > 1))) =>
    /\ [i \in DOMAIN Emitted |-> Emitted[i].sql] = DeleteOrder
    /\ IsPrefix(SentDeletes, DeleteOrder)
    /\ (outcome = "ok") => SentDeletes = DeleteOrder
    /\ (req.op = "DELETE") =>
         prog = translate_to_sql([req EXCEPT !.executor = "cypher", !.detach = ~req.detach])

\* A committed delete of a node that had an embedding, edges, properties
\* and a label.
C2_Witness ==
  /\ req.op \in {"DELETE", "delete_protein"} /\ pc = "done" /\ outcome = "ok"
  /\ req.id \in pre.kg_NodeEmbeddings
  /\ \E r \in pre.rdf_edges : r[1] = req.id
  /\ req.id \notin db.nodes

\* C3: the statement order of every write program is valid for the declared
\* foreign keys: from a consistent database, in every intermediate state of
\* a program the referential invariant holds and no statement is rejected
\* for a foreign key.
C3_OrderValidForFKs ==
  (pc \in {"run", "failed", "done"}) => (RefInt(db) /\ failure # "FK")

\* Half-way through a delete of a node with edges, and half-way through a
\* create: the tables differ from the start and are consistent.
C3_Witness ==
  /\ pc = "run" /\ req.op \in {"DELETE", "delete_protein"} /\ idx = 4
  /\ \E r \in pre.rdf_edges : r[1] = req.id
  /\ db # pre

OneRowEach(d, id) ==
  /\ id \in d.nodes
  /\ Cardinality({ r \in d.rdf_labels : r = <<id, LabelProtein>> }) = 1
  /\ Cardinality(PropRows(d, id, "id")) = 1

\* C4: MERGE is idempotent: after the program of MERGE (n:Protein {id: x})
\* has run, nodes, rdf_labels and rdf_props hold exactly one row for the
\* node, (s, label) and (s, key); a second run right after the first is not
\* rejected by any constraint and leaves the database as the first left it.
C4_MergeIdempotent ==
  (req.op = "MERGE" /\ pc = "done") =>
    /\ failure \in {"none", "DBERR"}
    /\ (outcome = "ok") => OneRowEach(db, req.id)
    /\ (prev.req.op = "MERGE" /\ prev.req.id = req.id) =>
         (db = pre /\ OneRowEach(db, req.id))

\* The second of two consecutive MERGEs of the same node has committed.
C4_Witness ==
  /\ req.op = "MERGE" /\ pc = "done" /\ outcome = "ok"
  /\ prev.req.op = "MERGE" /\ prev.req.id = req.id

\* The (key, val) pairs a SET or update_protein request writes.
Written ==
  IF req.op = "SET" THEN << <<"name", req.name>> >> ELSE Updates(req)

WrittenKeys == { Written[i][1] : i \in DOMAIN Written }

Untouched(d) == { r \in d.rdf_props : ~(r[1] = req.id /\ r[2] \in WrittenKeys) }

\* C5: SET v.k = e is an upsert: the program is not rejected by a
\* constraint, and once committed rdf_props holds exactly one row for
\* (v, k), carrying the new value, whether or not a row existed before;
\* rows with another (s, key) are unchanged.
C5_SetIsUpsert ==
  (req.op \in {"SET", "update_protein"} /\ pc = "done" /\ Len(log) > 1) =>
    /\ failure \in {"none", "DBERR"}
    /\ (outcome = "ok") =>
         /\ \A i \in DOMAIN Written :
              PropRows(db, req.id, Written[i][1]) = { <<req.id, Written[i][1], Written[i][2]>> }
         /\ Untouched(db) = Untouched(pre)

\* An update that replaced an existing name and inserted a function that
\* had no row.
C5_Witness ==
  /\ req.op = "update_protein" /\ pc = "done" /\ outcome = "ok"
  /\ \E r \in PropRows(pre, req.id, "name") : r[3] # req.name
  /\ req.function # NONE /\ PropRows(pre, req.id, "function") = {}
  /\ Untouched(pre) # {}

\* C9: a SQLProgram is transactional exactly when the query has a write
\* clause; then sql is a list of statements and parameters a list of lists
\* of the same length, the i-th list holding one value per placeholder of
\* the i-th statement and being the one the executor binds to it; a read
\* query yields a single SELECT string and is not transactional.
C9_TransactionalShape ==
  (req.executor \in CypherExecutors /\ pc # "idle") =>
    /\ prog.is_transactional <=> req.op \in WriteClauses
    /\ prog.is_transactional =>
         /\ prog.sql.t = "list"
         /\ Len(prog.parameters) = Len(prog.sql.l)
         /\ \A i \in DOMAIN prog.sql.l :
              /\ prog.parameters[i].t = "list"
              /\ Len(prog.parameters[i].l) = Placeholders(prog.sql.l[i])
         /\ \A i \in 1..SentCount : log[i + 1].p = prog.parameters[i]
         /\ failure # "ARGS"
    /\ ~prog.is_transactional =>
         /\ prog.sql.t = "str"
         /\ prog.sql.s = SQL_SELECT_LABEL

\* A committed CREATE with an embedding: five statements whose parameter
\* lists differ in length.
C9_Witness ==
  /\ req.executor \in CypherExecutors /\ pc = "done" /\ outcome = "ok"
  /\ req.op = "CREATE" /\ Len(prog.sql.l) = 5
  /\ Len(prog.parameters[1].l) # Len(prog.parameters[3].l)

ReadDone == req.executor \in CypherExecutors /\ req.op = "READ" /\ pc = "done"

PlaceholderCount == Cardinality({ i \in DOMAIN sql_out : sql_out[i] = Placeholder })

\* Values of the placeholders read left to right through the assembled
\* text: SELECT, FROM, JOINs, WHERE, ORDER BY.
TextOrderBinds ==
  Binds(select_items) \o Binds(from_clauses) \o Binds(join_clauses)
    \o Binds(where_conditions) \o Binds(order_by_items)

\* C6: in an assembled statement the number of placeholders equals the
\* length of the parameter buffer and the i-th placeholder of the text is
\* bound to the i-th buffer value, whatever the order in which the MATCH,
\* WHERE and RETURN fragments called add_parameter.
C6_PositionalBinding ==
  tstate = "built" =>
    /\ PlaceholderCount = Len(parameters)
    /\ parameters = TextOrderBinds

\* The count half of C6, which the single buffer does keep.
C6_CountOnly == tstate = "built" => PlaceholderCount = Len(parameters)

C6_Reached ==
  /\ tstate = "built"
  /\ PlaceholderCount = Len(parameters)
  /\ parameters # TextOrderBinds

BadOperand(operand, params) ==
  operand.t = "param" /\ params[operand.s].t # "int"

CallerStrings == {"abc", Injection} \cup QueryLabels \cup QueryKeys \cup QueryValues

\* C7: a SKIP or LIMIT parameter that is missing from params or is not an
\* integer ends translation with ParameterError and no SQL text, and no
\* caller-supplied value is ever a piece of the SQL text.
C7_PaginationParameterError ==
  /\ (tstate # "building"
        /\ (BadOperand(page.skip, page.params) \/ BadOperand(page.limit, page.params)))
       => (tstate = "ParameterError" /\ sql_out = <<>>)
  /\ \A i \in DOMAIN sql_out : sql_out[i] \notin CallerStrings

C7_Witness ==
  /\ tstate = "ParameterError"
  /\ page.limit = ParamRef("limit")
  /\ page.params.limit = PyStr(Injection)
  /\ parameters # <<>>

Suffix(seq, k) == SubSeq(seq, Len(seq) - k + 1, Len(seq))

BothFromParams ==
  /\ tstate = "built"
  /\ page.skip = ParamRef("offset")
  /\ page.limit = ParamRef("limit")

\* C8: SKIP $o LIMIT $l with non-negative integers yields text that ends
\* with LIMIT l and OFFSET o as integer literals, a 0 included, and the
\* two values add no placeholder and no entry to the parameter buffer.
C8_InlinePagination ==
  BothFromParams =>
    /\ Len(sql_out) >= 5
    /\ Suffix(sql_out, 5) =
         <<"LIMIT ", ToStr(page.params.limit.n), "\n",
           "OFFSET ", ToStr(page.params.offset.n)>>
    /\ PlaceholderCount = Len(TextOrderBinds)
    /\ Len(parameters) = Len(TextOrderBinds)

C8_Witness ==
  /\ BothFromParams
  /\ page.params.offset = PyInt(0)
  /\ page.params.limit = PyInt(0)
  /\ Suffix(sql_out, 5) = <<"LIMIT ", "0", "\n", "OFFSET ", "0">>


(***************************************************************************)
(* Properties of the CREATE programs                                       *)
(***************************************************************************)
\* The statements of the running request that reach the cursor, without
\* the raise steps.
PlanStmts == SelectSeq(Plan, LAMBDA st : st.when # "raise")

PlanTables == [i \in DOMAIN PlanStmts |-> TableOf(PlanStmts[i].sql)]

Repeat(x, k) == [i \in 1..k |-> x]

CreateShape(nl, np, withEmb) ==
  <<"nodes">> \o Repeat("rdf_labels", nl) \o Repeat("rdf_props", np)
    \o (IF withEmb THEN <<"kg_NodeEmbeddings">> ELSE <<>>)

Count(b) == IF b THEN 1 ELSE 0

\* Keys bound by the rdf_props statements, in statement order.
PlanPropKeys ==
  LET ps == SelectSeq(PlanStmts, LAMBDA st : TableOf(st.sql) = "rdf_props")
  IN  [i \in DOMAIN ps |-> ps[i].p.l[2]]

NodeCreateOrdered ==
  /\ (req.op \in {"CREATE", "create_node"} /\ pc # "idle") =>
       /\ PlanTables = CreateShape(Len(req.labels), 1 + Count(req.name # NONE), req.emb > 0)
       /\ Len(PlanStmts) = 1 + Len(req.labels) + 1 + Count(req.name # NONE) + Count(req.emb > 0)
       /\ PlanPropKeys = <<"id">> \o (IF req.name # NONE THEN <<"name">> ELSE <<>>)
       /\ \A i \in DOMAIN req.labels : PlanStmts[1 + i].p.l[2] = req.labels[i]
  /\ (req.op = "create_protein" /\ pc = "run") =>
       /\ PlanTables =
            CreateShape(1, 1 + Count(req.function # NONE) + Count(req.organism # NONE),
                        req.emb = EmbDim)
       /\ PlanPropKeys =
            <<"name">> \o (IF req.function # NONE THEN <<"function">> ELSE <<>>)
              \o (IF req.organism # NONE THEN <<"organism">> ELSE <<>>)

\* Every rdf_edges insert sent so far comes after a nodes statement for
\* each of its two endpoints.
EdgeAfterEndpoints ==
  \A i \in DOMAIN log :
    log[i].sql = SQL_INSERT_EDGE =>
      /\ \E j \in 1..(i - 1) :
           TableOf(log[j].sql) = "nodes" /\ log[j].p.l[1] = log[i].p.l[1]
      /\ \E k \in 1..(i - 1) :
           TableOf(log[k].sql) = "nodes" /\ log[k].p.l[1] = log[i].p.l[3]

\* C11: CREATE of a node with L labels and P properties is a program of
\* 1 + L + P statements, one more with an embedding, in the order nodes,
\* every rdf_labels insert, every rdf_props insert in property order,
\* kg_NodeEmbeddings; and the rdf_edges insert of a relationship CREATE is
\* sent only after the statements for both endpoint nodes.
C11_CreateOrder == NodeCreateOrdered /\ EdgeAfterEndpoints

C11_Witness ==
  /\ req.op = "CREATE"
  /\ Len(req.labels) = 2
  /\ req.name # NONE
  /\ req.emb > 0
  /\ pc = "done"
  /\ outcome = "ok"
  /\ LogSqls = <<SQL_START, SQL_MERGE_NODE, SQL_INSERT_LABEL, SQL_INSERT_LABEL,
                 SQL_INSERT_PROP, SQL_INSERT_PROP, SQL_INSERT_EMB, SQL_COMMIT>>
  /\ <<IdOf(2), RelType, IdOf(1)>> \in db.rdf_edges

(***************************************************************************)
(* ivg.vector.search                                                       *)
(***************************************************************************)
Has(seq, tok) == \E i \in DOMAIN seq : seq[i] = tok

\* The tokens of every stage, one after the other.
StageTokens == JoinSeq(stages, ", ")

\* The call of the query was lowered to a stage.
Lowered == call # NoCall /\ tstate \notin {"TranslationError"}

\* The statement the engine ran for the query, if it ran one.
Ran == engine_state = "done" /\ Len(executed) = 1

\* C12: without a similarity option, or with 'cosine', the stage and the
\* statement use VECTOR_COSINE; with 'dot_product' they use
\* VECTOR_DOT_PRODUCT and VECTOR_COSINE appears nowhere; any other value
\* is a translation error.
C12_SimilarityOption ==
  /\ Lowered /\ call.similarity \in {NONE, "cosine"} =>
       /\ Has(StageTokens, "VECTOR_COSINE")
       /\ ~Has(StageTokens, "VECTOR_DOT_PRODUCT")
       /\ Ran => Has(executed[1].sql, "VECTOR_COSINE")
  /\ Lowered /\ call.similarity = "dot_product" =>
       /\ Has(StageTokens, "VECTOR_DOT_PRODUCT")
       /\ ~Has(StageTokens, "VECTOR_COSINE")
       /\ Ran => /\ Has(executed[1].sql, "VECTOR_DOT_PRODUCT")
                 /\ ~Has(executed[1].sql, "VECTOR_COSINE")
  /\ call # NoCall /\ call.similarity \notin {NONE, "cosine", "dot_product"} =>
       /\ tstate = "TranslationError"
       /\ stages = <<>>
       /\ sql_out = <<>>

C12_Witness ==
  /\ Ran
  /\ call.similarity = "dot_product"
  /\ Has(executed[1].sql, "VECTOR_DOT_PRODUCT")

CountOf(seq, tok) == Cardinality({ i \in DOMAIN seq : seq[i] = tok })

HasRun(seq, run) ==
  \E i \in 1..(Len(seq) - Len(run) + 1) : SubSeq(seq, i, i + Len(run) - 1) = run

Mode1Valid ==
  /\ call # NoCall
  /\ call.nargs >= 4
  /\ call.similarity \in {NONE, "cosine", "dot_product"}
  /\ call.target.t = "list"

\* C13: a list target is lowered to TO_VECTOR(?) bound to the JSON text of
\* the vector; a string target is lowered to EMBEDDING(?, ?) bound to the
\* text and the embedding_config, in that order; a string target without
\* embedding_config is always a translation error; a list target never
\* needs embedding_config.
C13_TargetModes ==
  /\ Lowered /\ call.target.t = "list" =>
       /\ HasRun(StageTokens, <<"TO_VECTOR(", Placeholder, ")">>)
       /\ ~Has(StageTokens, "EMBEDDING(")
       /\ all_stage_params = <<JsonList(call.target.l), call.label>>
  /\ Lowered /\ call.target.t = "str" =>
       /\ HasRun(StageTokens, <<"EMBEDDING(", Placeholder, ", ", Placeholder, ")">>)
       /\ ~Has(StageTokens, "TO_VECTOR(")
       /\ call.embedding_config # NONE
       /\ all_stage_params = <<call.target.s, call.embedding_config, call.label>>
  /\ call # NoCall /\ call.target.t = "str" /\ call.embedding_config = NONE =>
       /\ tstate = "TranslationError"
       /\ stages = <<>>
  /\ Mode1Valid => tstate # "TranslationError" /\ Len(stages) = 1
  /\ Lowered => CountOf(StageTokens, Placeholder) = Len(all_stage_params)

C13_Witness ==
  /\ Ran
  /\ Mode2
  /\ HasRun(executed[1].sql, <<"EMBEDDING(", Placeholder, ", ", Placeholder, ")">>)
  /\ SubSeq(executed[1].p, 1, 2) = <<"flu symptoms", "my_config">>

\* What a call that was lowered left in the stage list and in the stage
\* parameter list.
StagesOfCall == IF Lowered THEN <<VecSearchCTE(call)>> ELSE <<>>

StageParamsOfCall == IF Lowered THEN StageParams(call) ELSE <<>>

Mode2Valid ==
  /\ call # NoCall
  /\ call.nargs >= 4
  /\ call.similarity \in {NONE, "cosine", "dot_product"}
  /\ call.target.t = "str"
  /\ call.embedding_config # NONE

\* C16: a text target with an embedding_config is never a translation
\* error, whatever the host supports; the unsupported-EMBEDDING error is
\* raised by the engine after translation, from the answer of a probe made
\* once, and before any SQL of the query is run.
C16_ProbeAtExecution ==
  /\ Mode2Valid => tstate # "TranslationError" /\ Len(stages) = 1
  /\ engine_state = "UnsupportedError" =>
       /\ Mode2
       /\ tstate = "built"
       /\ sql_out # <<>>
       /\ ~host_embedding
       /\ probe_cache = "no"
       /\ executed = <<>>
  /\ Ran /\ Mode2 => host_embedding /\ probe_cache = "yes"
  /\ probes <= 1
  /\ probes = 1 <=> probe_cache # "unknown"

C16_Witness ==
  /\ engine_state = "UnsupportedError"
  /\ Mode2Valid
  /\ tstate = "built"
  /\ probes = 1
  /\ queries = 1
  /\ executed = <<>>

\* The nodes-table references of the FROM list and of the JOINs.
NodeTableAliases ==
  { a \in {"n0", "n1", "n2"} :
      \/ Has(from_clauses, NodesFrom(a))
      \/ \E e \in {"e0", "e1"} : Has(join_clauses, NodeJoin(a, e)) }

\* The select list of a RETURN after the call: node hydrated through the
\* CTE alias, score a plain column of the CTE.
ExpectedSelect(items) ==
  [i \in DOMAIN items |->
     IF items[i] = "score" THEN Clause(<<"VecSearch.score AS score">>, <<>>)
     ELSE Hydrated(items[i], IF items[i] = "node" THEN "VecSearch"
                             ELSE variable_aliases[items[i]])]

\* C17: after CALL ... YIELD node, score the node is bound to the VecSearch
\* CTE; a later MATCH on node joins through VecSearch.node_id, keeps the
\* binding and takes no alias and no nodes table for it; score is selected
\* as the scalar VecSearch.score, not hydrated; the query compiles.
C17_ComposableCall ==
  Lowered =>
    /\ variable_aliases["node"] = "VecSearch"
    /\ variable_aliases["score"] = "VecSearch"
    /\ from_clauses[1] = Clause(<<"VecSearch">>, <<>>)
    /\ NodeTableAliases = { variable_aliases["m"] } \ {""}
    /\ join_clauses # <<>> /\ Len(join_clauses) = 3 =>
         /\ join_clauses[1] = EdgeJoin("e0", "VecSearch", RelRelated)
         /\ variable_aliases["m"] = "n1"
         /\ alias_counter = 2
    /\ select_items # <<>> =>
         \E items \in ReturnLists : select_items = ExpectedSelect(items)
    /\ tstate = "built" /\ Has(select_items, Clause(<<"VecSearch.score AS score">>, <<>>)) =>
         /\ Has(sql_out, "VecSearch.score AS score")
         /\ ~Has(sql_out, "VecSearch.node_id AS score_id")

C17_Witness ==
  /\ Ran
  /\ Lowered
  /\ Len(join_clauses) = 3
  /\ variable_aliases["node"] = "VecSearch"
  /\ variable_aliases["m"] = "n1"
  /\ Len(from_clauses) = 1
  /\ Has(executed[1].sql, "VecSearch.score AS score")
  /\ Has(executed[1].sql, "VecSearch.node_id AS node_id")

(***************************************************************************)
(* Function names                                                          *)
(***************************************************************************)
\* What each written name has to become.
ExpectedSqlName(name) ==
  CASE Text(name) \in {"toLower", "TOLOWER"} -> "LOWER"
    [] Text(name) \in {"toUpper", "toupper"} -> "UPPER"
    [] Text(name) \in {"trim", "TRIM"} -> "TRIM"
    [] Text(name) \in {"size", "Size"} -> "LENGTH"
    [] Text(name) = "someCustomFn" -> "SOMECUSTOMFN"
    [] Text(name) = "abs" -> "ABS"

\* The fragment a function call was lowered into.
FragmentOf(u) ==
  IF u.clause = "WHERE" THEN where_conditions[u.pos] ELSE select_items[u.pos]

\* The spellings of the four Cypher string functions that are not SQL names.
CypherOnlyNames ==
  { "toLower(", "TOLOWER(", "tolower(", "toUpper(", "TOUPPER(", "toupper(",
    "trim(", "size(", "SIZE(", "Size(" }

\* C19: toLower, toUpper, trim, size in any letter case become LOWER, UPPER,
\* TRIM, LENGTH, in WHERE and in RETURN alike, and the Cypher spelling does
\* not appear in the SQL; every other function name is passed through
\* upper-cased, applied to its translated argument.
C19_FunctionMap ==
  /\ \A i \in DOMAIN functions :
       /\ FragmentOf(functions[i]).text[1] = ExpectedSqlName(functions[i].name) \o "("
       /\ FragmentOf(functions[i]).text[2] = "p0.val"
       /\ tstate = "built" => Has(sql_out, ExpectedSqlName(functions[i].name) \o "(")
  /\ \A k \in DOMAIN sql_out : sql_out[k] \notin CypherOnlyNames

C19_Witness ==
  /\ tstate = "built"
  /\ Len(functions) = 2
  /\ Text(functions[1].name) = "TOLOWER" /\ functions[1].clause = "WHERE"
  /\ Text(functions[2].name) = "someCustomFn" /\ functions[2].clause = "RETURN"
  /\ Has(sql_out, "LOWER(")
  /\ Has(sql_out, "SOMECUSTOMFN(")
  /\ ~Has(sql_out, "TOLOWER(")

(***************************************************************************)
(* Plain DELETE of a node that has edges                                   *)
(***************************************************************************)
EdgesOf(d, id) == { r \in d.rdf_edges : r[1] = id \/ r[3] = id }

\* A delete without DETACH of a node that had edges when the request began.
PlainDeleteWithEdges ==
  /\ \/ req.op = "DELETE" /\ ~req.detach
     \/ req.op = "delete_protein"
  /\ EdgesOf(pre, req.id) # {}

\* C20 as stated: a plain DELETE of a node that still has edges, when the
\* driver itself does not fail, ends with a constraint error raised by the
\* final DELETE FROM nodes and with every table as it was before.
C20_PlainDeleteFails ==
  (PlainDeleteWithEdges /\ pc = "done" /\ failure # "DBERR") =>
    /\ outcome # "ok"
    /\ failure = "FK"
    /\ SentDeletes = DeleteOrder
    /\ db = pre

\* C20 amended: the second statement of a plain DELETE removes the edges of
\* the node (rdf_edges WHERE s = ? OR o_id = ?), so no statement is
\* rejected for a foreign key and the final DELETE FROM nodes goes through:
\* the program commits with the node and its edges gone.  If a statement
\* does fail, the batch is rolled back and every table is as it was.
C20_PlainDeleteCommits ==
  PlainDeleteWithEdges =>
    /\ failure # "FK"
    /\ (pc = "run" /\ failure = "none" /\ SQL_DELETE_EDGES \in Range(SentDeletes)) =>
         EdgesOf(db, req.id) = {}
    /\ (pc = "done" /\ failure = "none") =>
         /\ outcome = "ok"
         /\ SentDeletes = DeleteOrder
         /\ req.id \notin db.nodes
         /\ EdgesOf(db, req.id) = {}
    /\ (pc = "done" /\ failure # "none") =>
         /\ outcome # "ok"
         /\ db = pre

C20_Witness ==
  /\ req.op = "DELETE" /\ ~req.detach
  /\ \E r \in pre.rdf_edges : r[1] = req.id
  /\ pc = "done"
  /\ outcome = "ok"
  /\ failure = "none"
  /\ LogSqls[Len(LogSqls) - 1] = SQL_DELETE_NODE
  /\ req.id \notin db.nodes
  /\ EdgesOf(db, req.id) = {}

\* The aliases the context has handed out: those of next_alias and the name
\* of the procedure's CTE.
AllocatedAliases ==
  { prefix \o ToStr(k) : prefix \in {"n", "e"}, k \in 0..(alias_counter - 1) }
    \cup (IF stages # <<>> THEN {"VecSearch"} ELSE {})

Unresolved == \E i \in DOMAIN resolved : resolved[i].alias = ""

\* C21: a variable named in WHERE, RETURN, SET or DELETE that no earlier
\* MATCH or YIELD introduced ends the translation with ResolutionError, with
\* no SQL produced and none run; every reference that was lowered uses the
\* alias its variable was given, and every alias in the SELECT and WHERE
\* fragments is one the context allocated.
C21_UnboundVariable ==
  /\ Unresolved <=> tstate = "ResolutionError"
  /\ Unresolved => sql_out = <<>> /\ executed = <<>>
  /\ \A i \in DOMAIN resolved :
       resolved[i].alias # "" =>
         /\ resolved[i].alias \in AllocatedAliases
         /\ resolved[i].alias = variable_aliases[resolved[i].variable]
  /\ \A i \in DOMAIN select_items :
       \E v \in QueryVars :
         /\ variable_aliases[v] \in AllocatedAliases
         /\ select_items[i] = ReturnItem(v, variable_aliases)
  /\ \A i \in DOMAIN where_conditions :
       \E v \in QueryVars :
         /\ variable_aliases[v] \in AllocatedAliases
         /\ where_conditions[i] = WherePredicate(v, variable_aliases[v])

\* A query whose WHERE resolved and whose DELETE named an unbound variable
\* has failed at the caller.
C21_Witness ==
  /\ engine_state = "failed"
  /\ tstate = "ResolutionError"
  /\ \E i, j \in DOMAIN resolved :
       /\ resolved[i].clause = "WHERE" /\ resolved[i].alias # ""
       /\ resolved[j].clause = "DELETE" /\ resolved[j].alias = ""

\* The aliases of the node patterns: those the alias table holds, the CTE
\* name of yielded variables aside.
NodeAliases == { variable_aliases[v] : v \in QueryVars } \ {"", "VecSearch"}

\* The aliases of the relationship patterns, read from the rdf_edges joins.
EdgeAliases ==
  { e \in { "e" \o ToStr(k) : k \in 0..alias_counter } :
      \E i \in DOMAIN join_clauses, left \in NodeAliases \cup {"VecSearch"} :
        join_clauses[i] = EdgeJoin(e, left, RelRelated) }

Series(prefix, n) == { prefix \o ToStr(k) : k \in 0..(n - 1) }

\* C23 as stated: the node aliases are n0, n1, ... and the relationship
\* aliases e0, e1, ..., each series numbered from 0.
C23_SeriesFromZero ==
  /\ NodeAliases = Series("n", Cardinality(NodeAliases))
  /\ EdgeAliases = Series("e", Cardinality(EdgeAliases))

\* C23: one counter numbers the aliases of every prefix, so each number
\* below the counter belongs to exactly one alias, n or e; two variables
\* bound by patterns never share an alias; registering a variable that is
\* already bound (node, yielded by the call) keeps its alias and takes no
\* number, so the relationship after it is e0.
C23_SharedCounter ==
  /\ NodeAliases \subseteq Series("n", alias_counter)
  /\ EdgeAliases \subseteq Series("e", alias_counter)
  /\ \A k \in 0..(alias_counter - 1) :
       ("n" \o ToStr(k) \in NodeAliases) # ("e" \o ToStr(k) \in EdgeAliases)
  /\ \A v, w \in QueryVars :
       (v # w /\ variable_aliases[v] \in NodeAliases) =>
         variable_aliases[v] # variable_aliases[w]
  /\ (stages # <<>> /\ tstate # "TranslationError" /\ join_clauses # <<>>) =>
       /\ variable_aliases["node"] = "VecSearch"
       /\ (EdgeAliases # {} => EdgeAliases = {"e0"})

\* MATCH (node)-[:RELATED]->(m) with no call before it: n0, e1, n2.
C23_Witness ==
  /\ stages = <<>>
  /\ variable_aliases["node"] = "n0"
  /\ EdgeAliases = {"e1"}
  /\ variable_aliases["m"] = "n2"
  /\ alias_counter = 3

(***************************************************************************)
(* Property access sharing                                                 *)
(***************************************************************************)
\* The joins of rdf_props bound to a key.
PropJoinsFor(key) ==
  { i \in DOMAIN join_clauses :
      \E a \in PropAliases : join_clauses[i] = Clause(PropJoin(a), <<key>>) }

\* The fragment that reads a lowered property access.
PropFragment(u) ==
  IF u.item = "WHERE" THEN where_conditions[u.index] ELSE select_items[u.index]

\* C24: a property n.key mentioned several times, in WHERE and in RETURN,
\* has exactly one LEFT JOIN on rdf_props, every reference to it reads
\* through the alias of that join, a key never mentioned has no join, and
\* different keys read through different joins.
C24_SharedPropertyJoin ==
  /\ \A key \in QueryKeys :
       Cardinality(PropJoinsFor(key)) =
         IF \E u \in DOMAIN property_refs : property_refs[u].key = key THEN 1 ELSE 0
  /\ \A u \in DOMAIN property_refs :
       /\ \E i \in PropJoinsFor(property_refs[u].key) :
            join_clauses[i].text = PropJoin(property_refs[u].join)
       /\ PropFragment(property_refs[u]).text[1]
            \in {property_refs[u].join \o ".val", property_refs[u].join \o ".val = "}
  /\ \A u, w \in DOMAIN property_refs :
       (property_refs[u].key = property_refs[w].key)
         <=> (property_refs[u].join = property_refs[w].join)

\* A built query that reads n.active in WHERE and in RETURN and n.name in
\* RETURN through two joins.
C24_Witness ==
  /\ tstate = "built"
  /\ Len(property_refs) = 3
  /\ property_refs[1] = PropUse("WHERE", 1, "active", "p0")
  /\ property_refs[2] = PropUse("RETURN", 1, "active", "p0")
  /\ property_refs[3] = PropUse("RETURN", 2, "name", "p1")
  /\ Len(join_clauses) = 2

(***************************************************************************)
(* bulk_insert_nodes                                                       *)
(***************************************************************************)
\* C26 as stated: after a normal return every id of the input list is a
\* row of nodes and the returned count is the number of rows the call
\* added, whatever ids were present before and whatever rollbacks the
\* duplicates caused.
C26_IdempotentCount ==
  bulk_pc = "done" =>
    /\ \A i \in DOMAIN node_ids : node_ids[i] \in nodes_committed
    /\ inserted_count = Cardinality(nodes_committed \ nodes_before)

\* A return that counted an insert the rollback for a later duplicate undid.
C26_Reached ==
  /\ bulk_pc = "done"
  /\ node_ids = <<IdOf(1), IdOf(2)>>
  /\ nodes_before = {IdOf(2)}
  /\ inserted_count = 1
  /\ nodes_committed = {IdOf(2)}

(***************************************************************************)
(* CoreQuery.nodes                                                         *)
(***************************************************************************)
\* The tokens of the query text.
NodesText == Flatten(Texts(nodes_query))

\* C27 as stated: for every combination of labels, where and order_by the
\* params list has as many values as the text has placeholders and its i-th
\* value is the one the i-th placeholder stands for (where.key for p.key,
\* order_by for order_p.key, the labels for the IN list, where.value for
\* the filter, then limit and offset), and the direction in the text is
\* ASC or DESC.
C27_NodesParameters ==
  nodes_pc = "executed" =>
    /\ CountOf(NodesText, Placeholder) = Len(nodes_params)
    /\ nodes_params = Binds(nodes_query)
    /\ \E i \in DOMAIN nodes_query :
         /\ nodes_query[i].text[1] \in
              {"ORDER BY n.created_at ", "ORDER BY n.node_id ", "ORDER BY order_p.val "}
         /\ nodes_query[i].text[2] \in {"ASC", "DESC"}

\* A property filter with ordering by another property: the key of the
\* filter join and the key of the ordering join are bound the wrong way
\* round.
C27_Reached ==
  /\ nodes_pc = "executed"
  /\ arg_where = PropertyFilter("status", "approved", <<>>)
  /\ arg_order_by = "name"
  /\ arg_labels = PyNone
  /\ Binds(nodes_query)[1] = PyStr("status")
  /\ nodes_params[1] = PyStr("name")
  /\ Len(nodes_params) = CountOf(NodesText, Placeholder)

(***************************************************************************)
(* Query.execute_cypher: failures become values                            *)
(***************************************************************************)
\* C29: when the query does not parse or does not translate, nothing is
\* handed to cursor.execute, not even START TRANSACTION, and the resolver
\* returns the error object instead of raising; and on every path the
\* cursor it opened is closed exactly once (none is opened, and none closed,
\* without a connection).
C29_FailuresAreValues ==
  /\ gql_query \in {"unparsable", "untranslatable"} =>
       /\ gql_sent = <<>>
       /\ gql_pc = "returned" => gql_result = "error"
  /\ gql_closed <= gql_cursors
  /\ gql_cursors <= 1
  /\ gql_pc = "returned" => gql_closed = gql_cursors
  /\ gql_connection /\ gql_pc \notin {"idle"} => gql_cursors = 1

\* A query that parses and fails in translation has returned the error
\* object with nothing sent and the cursor closed.
C29_Witness ==
  /\ gql_pc = "returned"
  /\ gql_query = "untranslatable"
  /\ gql_result = "error"
  /\ gql_sent = <<>>
  /\ gql_cursors = 1
  /\ gql_closed = 1

(***************************************************************************)
(* Translation is deterministic and isolated per invocation                *)
(***************************************************************************)
\* The invocations whose calls put the entries found in the objects that
\* invocation i's context refers to.
EnteredBy(i) ==
  UNION { { iso_heap[iso_fields[i][k]][n][2] : n \in DOMAIN iso_heap[iso_fields[i][k]] }
          : k \in DOMAIN iso_fields[i] }

RowsOf(key) == { r \in up_rows : r[1] = key }

\* C30: two executions of the upsert on the same protein, each in its own
\* transaction and interleaved statement by statement, never leave two
\* committed rows of one key, so at most one of them commits an INSERT of
\* it; and an execution whose INSERT the primary key rejected ends by
\* raising, with its transaction rolled back: no row and no value of it is
\* committed, not even the updates it made before the rejected INSERT.
C30_UpsertKeepsOneRow ==
  /\ \A k \in Range(UpdateKeys) : Cardinality(RowsOf(k)) <= 1
  /\ \A e \in DOMAIN up_rejected :
       up_rejected[e] =>
         /\ up_pc[e] \in {"except", "raised"}
         /\ \A r \in up_rows : r[3] # e /\ r[2] # ValueOf(e)
         /\ up_pc[e] = "raised" => up_pending[e] = <<>>

\* Both executions found no row of "function" and went on to insert it;
\* the first committed its INSERT, the second was rejected after it had
\* updated "name", and has raised.
C30_Witness ==
  /\ DOMAIN up_pc = Executions
  /\ up_pc[1] = "returned"
  /\ up_pc[2] = "raised"
  /\ up_rejected[2]
  /\ up_updates[2] = <<1, 2>>
  /\ up_rows = { PropRow("name", "old", 0), PropRow("function", "v1", 1) }

====
